---- MODULE Spec2Model ----
(***************************************************************************)
(* Asset versioning pipeline of cmd/hashCdn/main.go (VersionManager).      *)
(*                                                                         *)
(* Strings are sequences of one-character strings, so that the regular     *)
(* expressions and the path functions of the code are modelled by what     *)
(* they do to the characters.  Paths use "/" (filepath on a POSIX build).  *)
(* A file's content is a record: body (opaque bytes), refs (the url()      *)
(* occurrences of a stylesheet) and tags (the link/script tags of an HTML  *)
(* document).                                                              *)
(***************************************************************************)
EXTENDS Integers, Sequences, FiniteSets, TLC

VARIABLES
    fs,             \* the file tree: path -> content, for the files that exist
    tbl,            \* digest table: the contents md5 has been asked about
    config,         \* Config: RootDir, CDNDomain, HashLength, HTMLFiles
    versionMap,     \* vm.versionMap: root-relative path -> hash
    processedFiles, \* vm.processedFiles: set of paths
    ledger,         \* .version-map.json: [written, map]
    htmlFiles,      \* the batch list handed to processMultipleHTMLFiles
    docIdx,         \* index in htmlFiles of the document being processed
    pc,             \* position of the run inside processHTMLFile / the batch
    resources,      \* processHTMLFile's local map: [css, js] key -> new name
    htmlResources,  \* collectResourcesFromHTML's result: [css, js] lists
    calls,          \* history: the publish calls of this run, in order
    rewrites,       \* history: the attribute rewrites of this run
    fs0,            \* history: the tree at the start of this run
    run,            \* number of the current run
    faults,         \* the I/O failures of the environment: [create, rename, remove]
    cin,            \* codec: [f, body], the clean filename and the bytes hashed
    cout,           \* codec: [stage, hash, hashed, stripped]
    htmlFile,       \* main: the value of the -file flag after flag.Parse
    scanAll,        \* main: the value of the -all flag
    exit,           \* the process: [ended, status], status being its exit status
    mu,             \* vm.mu: the worker that holds the mutex, 0 when it is free
    workers,        \* parallel workers: id -> [pc, path], each on one image
    accesses,       \* history: the accesses of workers to the two maps
    mover           \* the image mover (a program of its own): its files,
                    \* loop position, counters and I/O failures

vars == <<fs, tbl, config, versionMap, processedFiles, ledger, htmlFiles,
          docIdx, pc, resources, htmlResources, calls, rewrites,
          fs0, run, faults, cin, cout, htmlFile, scanAll, exit,
          mu, workers, accesses, mover>>

-----------------------------------------------------------------------------
(* Bounds of the model.                                                    *)

\* number of runs of the tool over the same tree
MaxRuns == 2
\* largest configured HashLength the codec check tries
MaxHashLength == 9

(* Program constants.                                                      *)

\* the {8} of the filename patterns
PatternHashLen == 8
\* length of hex.EncodeToString(md5 sum)
DigestLen == 32
\* loadConfig's default HashLength
DefaultHashLength == 8

-----------------------------------------------------------------------------
(* Strings.                                                                *)

HexChars == {"0","1","2","3","4","5","6","7","8","9","a","b","c","d","e","f"}

HexDigit == <<"0","1","2","3","4","5","6","7","8","9","a","b","c","d","e","f">>

Take(s, n) == SubSeq(s, 1, n)

Drop(s, n) == SubSeq(s, n + 1, Len(s))

HasPrefix(s, p) == Len(s) >= Len(p) /\ Take(s, Len(p)) = p

HasSuffix(s, p) == Len(s) >= Len(p) /\ Drop(s, Len(s) - Len(p)) = p

TrimPrefix(s, p) == IF HasPrefix(s, p) THEN Drop(s, Len(p)) ELSE s

TrimSuffix(s, p) == IF HasSuffix(s, p) THEN Take(s, Len(s) - Len(p)) ELSE s

Contains(s, p) ==
    \E i \in 1..(Len(s) - Len(p) + 1) : SubSeq(s, i, i + Len(p) - 1) = p

\* index of the last occurrence of character c in s, 0 when there is none
LastIndex(s, c) ==
    LET hits == {i \in 1..Len(s) : s[i] = c}
    IN  IF hits = {} THEN 0 ELSE CHOOSE i \in hits : \A j \in hits : j <= i

\* index of the first occurrence of character c in s, 0 when there is none
FirstIndex(s, c) ==
    LET hits == {i \in 1..Len(s) : s[i] = c}
    IN  IF hits = {} THEN 0 ELSE CHOOSE i \in hits : \A j \in hits : i <= j

\* strings.Split(s, c)[0]
BeforeFirst(s, c) ==
    IF FirstIndex(s, c) = 0 THEN s ELSE Take(s, FirstIndex(s, c) - 1)

\* strings.ReplaceAll(s, "\\", "/")
BackslashToSlash(s) == [i \in 1..Len(s) |-> IF s[i] = "\\" THEN "/" ELSE s[i]]

IsHex(s) == \A i \in 1..Len(s) : s[i] \in HexChars

Range(s) == {s[i] : i \in 1..Len(s)}

SetToSeq(S) ==
    LET RECURSIVE build(_)
        build(T) ==
            IF T = {} THEN <<>>
            ELSE LET x == CHOOSE y \in T : TRUE
                 IN  <<x>> \o build(T \ {x})
    IN  build(S)

Perms(S) ==
    {p \in [1..Cardinality(S) -> S] :
        \A i, j \in 1..Cardinality(S) : p[i] = p[j] => i = j}

-----------------------------------------------------------------------------
(* Paths (path/filepath).                                                  *)

Dot == <<".">>

Slash == <<"/">>

\* the elements of a path between its slashes
RECURSIVE SplitPath(_)
SplitPath(p) ==
    IF FirstIndex(p, "/") = 0 THEN <<p>>
    ELSE <<Take(p, FirstIndex(p, "/") - 1)>> \o SplitPath(Drop(p, FirstIndex(p, "/")))

RECURSIVE JoinElems(_)
JoinElems(es) ==
    IF Len(es) = 0 THEN <<>>
    ELSE IF Len(es) = 1 THEN es[1]
    ELSE es[1] \o Slash \o JoinElems(Tail(es))

\* filepath.Clean of a relative path: drops "" and ".", resolves ".."
RECURSIVE CleanElems(_, _)
CleanElems(es, acc) ==
    IF Len(es) = 0 THEN acc
    ELSE IF es[1] = <<>> \/ es[1] = Dot THEN CleanElems(Tail(es), acc)
    ELSE IF es[1] = <<".", ".">> /\ Len(acc) > 0 /\ acc[Len(acc)] # <<".", ".">>
         THEN CleanElems(Tail(es), Take(acc, Len(acc) - 1))
    ELSE CleanElems(Tail(es), Append(acc, es[1]))

\* the cleaned elements joined again; no element left is "."
JoinOrDot(es) == IF Len(es) = 0 THEN Dot ELSE JoinElems(es)

Clean(p) == JoinOrDot(CleanElems(SplitPath(p), <<>>))

\* filepath.Join
Join(a, b) == Clean(a \o Slash \o b)

\* filepath.Dir
Dir(p) ==
    IF LastIndex(p, "/") = 0 THEN Dot ELSE Clean(Take(p, LastIndex(p, "/") - 1))

\* filepath.Base
Base(p) == Drop(p, LastIndex(p, "/"))

\* the suffix of a last element whose last dot is at index i
ExtAt(b, i) == IF i = 0 THEN <<>> ELSE Drop(b, i - 1)

\* filepath.Ext: the suffix of the last element that starts at its last dot
Ext(p) == ExtAt(Base(p), LastIndex(Base(p), "."))

\* filepath.Rel(base, target) for a target below base
Rel(base, target) ==
    IF base = Dot THEN Clean(target)
    ELSE TrimPrefix(Clean(target), Clean(base) \o Slash)

-----------------------------------------------------------------------------
(* FilenameCodec.                                                          *)

RecognizedExts ==
    { <<"c","s","s">>, <<"j","s">>, <<"j","p","g">>, <<"j","p","e","g">>,
      <<"p","n","g">>, <<"g","i","f">>, <<"s","v","g">>, <<"w","e","b","p">>,
      <<"i","c","o">> }

\* ^(.+)\.([a-f0-9]{h})\.(css|js|...)$ for a name whose extension e starts
\* after n characters: the three groups, or <<>> on no match
GroupsAt(filename, e, n, h) ==
    IF /\ Len(e) > 1
       /\ LastIndex(Drop(e, 1), "/") = 0
       /\ Drop(e, 1) \in RecognizedExts
       /\ e = Drop(filename, n)
       /\ n >= h + 2
       /\ IsHex(SubSeq(filename, n - h + 1, n))
       /\ filename[n - h] = "."
    THEN <<Take(filename, n - h - 1), SubSeq(filename, n - h + 1, n), Drop(e, 1)>>
    ELSE <<>>

\* FindStringSubmatch of the pattern of removeHashFromFilename
HashedNameGroups(filename) ==
    GroupsAt(filename, Ext(filename), Len(filename) - Len(Ext(filename)),
             PatternHashLen)

\* name + "." + ext of a match, the filename itself otherwise
JoinGroups(filename, matches) ==
    IF Len(matches) = 3 THEN matches[1] \o Dot \o matches[3] ELSE filename

removeHashFromFilename(filename) == JoinGroups(filename, HashedNameGroups(filename))

\* \.[a-f0-9]{8}$ replaced by "" in basename
StripTrailingHash(basename) ==
    LET n == Len(basename)
        h == PatternHashLen
    IN  IF n >= h + 1 /\ basename[n - h] = "." /\ IsHex(Drop(basename, n - h))
        THEN Take(basename, n - h - 1)
        ELSE basename

\* basename + "." + hash + ext
InsertHash(filename, hash, ext) ==
    StripTrailingHash(TrimSuffix(filename, ext)) \o Dot \o hash \o ext

addHashToFilename(filename, hash) == InsertHash(filename, hash, Ext(filename))

-----------------------------------------------------------------------------
(* Maps with string keys, as sets of [k, v] entries.                       *)

Keys(m) == {e.k : e \in m}

Get(m, key) == (CHOOSE e \in m : e.k = key).v

Put(m, key, val) == {e \in m : e.k # key} \cup {[k |-> key, v |-> val]}

-----------------------------------------------------------------------------
(* File contents and the file tree.                                        *)

Empty == [body |-> "", refs |-> <<>>, tags |-> <<>>]

Blob(b) == [body |-> b, refs |-> <<>>, tags |-> <<>>]

Css(b, rs) == [body |-> b, refs |-> rs, tags |-> <<>>]

Html(ts) == [body |-> "html", refs |-> <<>>, tags |-> ts]

IsFile(fsys, p) == p \in DOMAIN fsys

IsDirectory(fsys, d) ==
    d = Dot \/ \E p \in DOMAIN fsys : HasPrefix(p, d \o Slash)

\* os.Stat(path) succeeds
fileExists(fsys, path) == IsFile(fsys, path) \/ IsDirectory(fsys, path)

\* os.WriteFile / the destination of a copy
WriteFile(fsys, path, content) ==
    [p \in DOMAIN fsys \cup {path} |-> IF p = path THEN content ELSE fsys[p]]

\* os.Remove that succeeds
RemoveFile(fsys, path) == [p \in DOMAIN fsys \ {path} |-> fsys[p]]

\* os.ReadDir: the names of the files of a directory
ReadDir(fsys, dir) == {Base(p) : p \in {q \in DOMAIN fsys : Dir(q) = dir}}

\* the digest table with the content added when it is new
Intern(t, content) == IF content \in Range(t) THEN t ELSE Append(t, content)

\* hex.EncodeToString(md5(content)): injective on the contents of the table
md5hex(t, content) ==
    LET i == CHOOSE j \in 1..Len(t) : t[j] = content
    IN  [k \in 1..DigestLen |->
            IF k = 1 THEN HexDigit[((i \div 16) % 16) + 1]
            ELSE IF k = 2 THEN HexDigit[(i % 16) + 1]
            ELSE "0"]

\* calculateFileHash: [ok, hash]
calculateFileHash(t, fsys, filePath) ==
    IF ~IsFile(fsys, filePath) THEN [ok |-> FALSE, hash |-> <<>>]
    ELSE LET hashString == md5hex(t, fsys[filePath])
         IN  IF config.HashLength > 0 /\ config.HashLength < Len(hashString)
             THEN [ok |-> TRUE, hash |-> Take(hashString, config.HashLength)]
             ELSE [ok |-> TRUE, hash |-> hashString]

\* a copy that moves the file instead: the source is gone afterwards
copyFileMoving(fsys, src, dst) ==
    IF ~IsFile(fsys, src) \/ dst \in faults.create
    THEN [ok |-> FALSE, fs |-> fsys]
    ELSE [ok |-> TRUE,
          fs |-> IF src = dst THEN fsys
                 ELSE RemoveFile(WriteFile(fsys, dst, fsys[src]), src)]

\* copyFile: os.Open(src), os.Create(dst) truncating it, io.Copy
copyFile(fsys, src, dst) ==
    IF ~IsFile(fsys, src) \/ dst \in faults.create
    THEN [ok |-> FALSE, fs |-> fsys]
    ELSE [ok |-> TRUE,
          fs |-> WriteFile(fsys, dst, IF src = dst THEN Empty ELSE fsys[src])]

-----------------------------------------------------------------------------
(* AssetPublisher.                                                         *)

\* ^basename\.([a-f0-9]{8})ext$ : the hash of a matching name, <<>> otherwise
SiblingHash(filename, basename, ext) ==
    LET h == PatternHashLen
    IN  IF /\ Len(filename) = Len(basename) + 1 + h + Len(ext)
           /\ Take(filename, Len(basename)) = basename
           /\ filename[Len(basename) + 1] = "."
           /\ IsHex(SubSeq(filename, Len(basename) + 2, Len(basename) + 1 + h))
           /\ Drop(filename, Len(basename) + 1 + h) = ext
        THEN SubSeq(filename, Len(basename) + 2, Len(basename) + 1 + h)
        ELSE <<>>

\* the stale siblings the scan of findAndDeleteOldHashFiles collects
OldHashFiles(fsys, dir, basename, ext, currentHash) ==
    {Join(dir, f) : f \in {g \in ReadDir(fsys, dir) :
        /\ SiblingHash(g, basename, ext) # <<>>
        /\ SiblingHash(g, basename, ext) # currentHash}}

\* findAndDeleteOldHashFiles: [fs, deleted]
findAndDeleteOldHashFiles(fsys, dir, basename, ext, currentHash) ==
    LET old == OldHashFiles(fsys, dir, basename, ext, currentHash)
    IN  IF faults.remove THEN [fs |-> fsys, deleted |-> {}]
        ELSE [fs |-> [p \in DOMAIN fsys \ old |-> fsys[p]], deleted |-> old]

NoInfo == [OriginalPath |-> <<>>, HashedPath |-> <<>>, Hash |-> <<>>]

\* a check of the target that never finds it up to date
TargetNeverUpToDate(t, fsys, newPath, hash) == FALSE

\* the target exists and its bytes hash to the same value
TargetUpToDate(t, fsys, newPath, hash) ==
    /\ fileExists(fsys, newPath)
    /\ calculateFileHash(t, fsys, newPath).ok
    /\ calculateFileHash(t, fsys, newPath).hash = hash

\* the clean path of an asset: its directory and its name without a hash
CleanPathOf(path) == Join(Dir(path), removeHashFromFilename(Base(path)))

\* the copy has been tried: the stale siblings are deleted when it succeeded
PublishCopied(dir, cleanFilename, info, removed, cp) ==
    IF ~cp.ok
    THEN [ok |-> FALSE, fs |-> cp.fs, info |-> NoInfo, copied |-> 0,
          deleted |-> removed]
    ELSE LET del == findAndDeleteOldHashFiles(cp.fs, dir,
                        TrimSuffix(cleanFilename, Ext(cleanFilename)),
                        Ext(cleanFilename), info.Hash)
         IN  [ok |-> TRUE, fs |-> del.fs, info |-> info, copied |-> 1,
              deleted |-> removed \cup del.deleted]

\* the target is looked at: an up-to-date target is returned as it is, one
\* that holds other bytes is removed before the copy
PublishTarget(t, fsys, dir, cleanFilename, info) ==
    LET removed == IF IsFile(fsys, info.HashedPath) /\ ~faults.remove
                   THEN {info.HashedPath} ELSE {}
    IN  IF TargetUpToDate(t, fsys, info.HashedPath, info.Hash)
        THEN [ok |-> TRUE, fs |-> fsys, info |-> info, copied |-> 0, deleted |-> {}]
        ELSE PublishCopied(dir, cleanFilename, info, removed,
                           copyFile([p \in DOMAIN fsys \ removed |-> fsys[p]],
                                    info.OriginalPath, info.HashedPath))

\* the source has been hashed: the name with the hash, and the FileInfo
PublishHashed(t, fsys, dir, cleanFilename, sourcePath, h) ==
    IF ~h.ok
    THEN [ok |-> FALSE, fs |-> fsys, info |-> NoInfo, copied |-> 0, deleted |-> {}]
    ELSE PublishTarget(t, fsys, dir, cleanFilename,
                       [OriginalPath |-> sourcePath,
                        HashedPath |-> Join(dir, addHashToFilename(cleanFilename, h.hash)),
                        Hash |-> h.hash])

\* the source is hashed
PublishSource(t, fsys, dir, cleanFilename, sourcePath) ==
    PublishHashed(t, fsys, dir, cleanFilename, sourcePath,
                  calculateFileHash(t, fsys, sourcePath))

\* renameFileWithHash: [ok, fs, info, copied, deleted]; the source is the
\* clean file when it exists, the given file otherwise
renameFileWithHash(t, fsys, filePath) ==
    PublishSource(t, fsys, Dir(filePath), removeHashFromFilename(Base(filePath)),
                  IF fileExists(fsys, CleanPathOf(filePath))
                  THEN CleanPathOf(filePath) ELSE filePath)

-----------------------------------------------------------------------------
(* History records of the publish calls.                                   *)

\* name is <base>.<hex><ext> for a non-empty lowercase-hex token
IsFingerprintOf(name, base, ext) ==
    /\ Len(name) > Len(base) + 1 + Len(ext)
    /\ Take(name, Len(base) + 1) = base \o Dot
    /\ Drop(name, Len(name) - Len(ext)) = ext
    /\ IsHex(SubSeq(name, Len(base) + 2, Len(name) - Len(ext)))

\* the fingerprinted siblings of the asset with this clean path
FingerprintedSiblings(fsys, cleanPath) ==
    {f \in ReadDir(fsys, Dir(cleanPath)) :
        IsFingerprintOf(f, TrimSuffix(Base(cleanPath), Ext(cleanPath)), Ext(cleanPath))}

\* the hash embedded in a fingerprinted sibling's name
EmbeddedHash(name, cleanPath) ==
    SubSeq(name, Len(TrimSuffix(Base(cleanPath), Ext(cleanPath))) + 2,
           Len(name) - Len(Ext(cleanPath)))

\* the record of one publish call: what it was given, returned and did
CallRecord(fn, t, before, arg, r, imap) ==
    [fn |-> fn, arg |-> arg, ok |-> r.ok,
     src |-> r.info.OriginalPath, hashed |-> r.info.HashedPath, hash |-> r.info.Hash,
     copied |-> r.copied, deleted |-> r.deleted,
     srcDigest |-> IF r.ok /\ IsFile(before, r.info.OriginalPath)
                   THEN md5hex(t, before[r.info.OriginalPath]) ELSE <<>>,
     upToDate |-> r.ok /\ IsFile(before, r.info.HashedPath)
                  /\ before[r.info.HashedPath] = before[r.info.OriginalPath],
     siblings |-> FingerprintedSiblings(r.fs, CleanPathOf(arg)),
     exists |-> r.ok /\ IsFile(r.fs, r.info.HashedPath),
     digest |-> IF r.ok /\ IsFile(r.fs, r.info.HashedPath)
                THEN md5hex(t, r.fs[r.info.HashedPath]) ELSE <<>>,
     kept |-> /\ r.ok
              /\ IsFile(before, r.info.OriginalPath)
              /\ \E f \in FingerprintedSiblings(r.fs, CleanPathOf(arg)) :
                    r.fs[Join(Dir(arg), f)] = before[r.info.OriginalPath],
     imageMap |-> imap]

-----------------------------------------------------------------------------
(* CSS image pipeline.                                                     *)

Http == <<"h","t","t","p">>

DataColon == <<"d","a","t","a",":">>

DotSlash == <<".","/">>

\* the path of a url() with its query string and fragment removed
StripQuery(imagePath) == BeforeFirst(BeforeFirst(imagePath, "?"), "#")

IsRemote(path) ==
    HasPrefix(path, Http) \/ HasPrefix(path, DataColon) \/ HasPrefix(path, <<"/","/">>)

\* the ImageReference of one url(): none for a remote or a missing image
ImageReferenceAt(fsys, raw, imagePath, absolutePath) ==
    IF ~IsRemote(raw) /\ fileExists(fsys, absolutePath)
    THEN <<[OriginalPath |-> imagePath, AbsolutePath |-> absolutePath]>>
    ELSE <<>>

RECURSIVE CollectImages(_, _, _, _)
CollectImages(fsys, cssDir, refs, i) ==
    IF i > Len(refs) THEN <<>>
    ELSE ImageReferenceAt(fsys, refs[i].path, StripQuery(refs[i].path),
                          Clean(Join(cssDir, StripQuery(refs[i].path))))
         \o CollectImages(fsys, cssDir, refs, i + 1)

\* collectImagesFromCSS: the ImageReferences, in the order of the url()s
collectImagesFromCSS(fsys, cssPath) ==
    CollectImages(fsys, Dir(cssPath), fsys[cssPath].refs, 1)

\* url\(\s*(['"]?)\s*([^'")\s]*[/\\])?NAME\s*(['"]?)\s*\) matches this url()
UrlMatches(ref, cleanOldFilename) ==
    LET n == Len(ref.path) - Len(cleanOldFilename)
    IN  /\ n >= 0
        /\ Drop(ref.path, n) = cleanOldFilename
        /\ (n = 0 \/ ref.path[n] \in {"/", "\\"})

\* the replacement of a matching url(): the quotes made equal, the name replaced
UrlReplacement(ref, cleanOldFilename, newFilename) ==
    LET pathPrefix == Take(ref.path, Len(ref.path) - Len(cleanOldFilename))
        oq == IF ref.oq = "" /\ ref.cq # "" THEN ref.cq ELSE ref.oq
        cq == IF ref.oq # "" /\ ref.cq = "" THEN ref.oq ELSE ref.cq
    IN  [oq |-> oq, path |-> pathPrefix \o newFilename, cq |-> cq]

\* the pattern of one clean name applied to all url()s
RewriteUrlsNamed(refs, cleanOldFilename, newFilename) ==
    [i \in 1..Len(refs) |->
        IF UrlMatches(refs[i], cleanOldFilename)
        THEN UrlReplacement(refs[i], cleanOldFilename, newFilename)
        ELSE refs[i]]

\* one pass of the loop of updateCSSImageReferences over all url()s
RewriteUrls(refs, originalPath, newFilename) ==
    RewriteUrlsNamed(refs, removeHashFromFilename(Base(originalPath)), newFilename)

\* the loop of updateCSSImageReferences, the map ranged over in the given order
RECURSIVE RewriteAllUrls(_, _, _, _)
RewriteAllUrls(refs, imageMap, order, i) ==
    IF i > Len(order) THEN refs
    ELSE IF order[i] \in Keys(imageMap)
    THEN RewriteAllUrls(RewriteUrls(refs, order[i], Get(imageMap, order[i])),
                        imageMap, order, i + 1)
    ELSE RewriteAllUrls(refs, imageMap, order, i + 1)

\* the file is written only when its content has changed: [fs, tbl]
WriteIfChanged(t, fsys, path, content, newContent) ==
    IF newContent # content
    THEN [fs |-> WriteFile(fsys, path, newContent), tbl |-> Intern(t, newContent)]
    ELSE [fs |-> fsys, tbl |-> t]

\* updateCSSImageReferences: [fs, tbl]
updateCSSImageReferences(t, fsys, cssPath, imageMap, order) ==
    WriteIfChanged(t, fsys, cssPath, fsys[cssPath],
                   [fsys[cssPath] EXCEPT !.refs = RewriteAllUrls(@, imageMap, order, 1)])

\* an image processed before: its name is computed from its bytes
ImageSeen(acc, image, h) ==
    IF h.ok
    THEN [acc EXCEPT !.imageMap =
            Put(@, image.OriginalPath,
                addHashToFilename(removeHashFromFilename(Base(image.AbsolutePath)),
                                  h.hash))]
    ELSE acc

\* an image published now
ImagePublished(t, acc, image, r) ==
    [fs |-> r.fs,
     processed |-> acc.processed \cup {image.AbsolutePath},
     versionMap |-> IF r.ok
                    THEN Put(acc.versionMap,
                             Rel(config.RootDir, image.AbsolutePath), r.info.Hash)
                    ELSE acc.versionMap,
     imageMap |-> IF r.ok
                  THEN Put(acc.imageMap, image.OriginalPath, Base(r.info.HashedPath))
                  ELSE acc.imageMap,
     log |-> Append(acc.log, CallRecord("rename", t, acc.fs, image.AbsolutePath, r, {}))]

\* one turn of the loop of processComponentCSS over the images
PublishImage(t, acc, image) ==
    IF image.AbsolutePath \in acc.processed
    THEN ImageSeen(acc, image, calculateFileHash(t, acc.fs, image.AbsolutePath))
    ELSE ImagePublished(t, acc, image, renameFileWithHash(t, acc.fs, image.AbsolutePath))

\* the loop of processComponentCSS over the images of the stylesheet
RECURSIVE PublishImages(_, _, _)
PublishImages(t, images, acc) ==
    IF Len(images) = 0 THEN acc
    ELSE PublishImages(t, Tail(images), PublishImage(t, acc, images[1]))

\* the clean stylesheet when it exists, the given file otherwise
CssSource(fsys, cssPath) ==
    IF fileExists(fsys, CleanPathOf(cssPath)) THEN CleanPathOf(cssPath) ELSE cssPath

\* the keys the image map of a stylesheet can have
ImageKeys(fsys, cssPath) ==
    IF IsFile(fsys, CssSource(fsys, cssPath))
    THEN {StripQuery(r.path) : r \in Range(fsys[CssSource(fsys, cssPath)].refs)}
    ELSE {}

\* os.Rename(from, to); its error is not looked at
Rename(fsys, from, to) ==
    IF faults.rename \/ ~IsFile(fsys, from) THEN fsys
    ELSE WriteFile(RemoveFile(fsys, from), to, fsys[from])

\* processComponentCSS returns an error
CssFailed(t, im, fsys) ==
    [ok |-> FALSE, fs |-> fsys, tbl |-> t, processed |-> im.processed,
     versionMap |-> im.versionMap, info |-> NoInfo, log |-> im.log,
     imageMap |-> im.imageMap, copied |-> 0, deleted |-> {}]

\* the stale fingerprinted stylesheets are deleted; the version map entry of
\* the stylesheet and the FileInfo returned
CssCleanup(cssDir, cleanFilename, im, t, fsys, info) ==
    LET del == findAndDeleteOldHashFiles(fsys, cssDir,
                    TrimSuffix(cleanFilename, Ext(cleanFilename)),
                    Ext(cleanFilename), info.Hash)
    IN  [ok |-> TRUE, fs |-> del.fs, tbl |-> t, processed |-> im.processed,
         versionMap |-> Put(im.versionMap, Rel(config.RootDir, info.OriginalPath),
                            info.Hash),
         info |-> info, log |-> im.log,
         imageMap |-> im.imageMap, copied |-> 1, deleted |-> del.deleted]

\* the copy is renamed when its url()s were rewritten and it hashes to another
\* value, which gives another name
CssRehashed(cssDir, cleanFilename, im, source, h0, hashedCssPath, up, h1, finalCssPath) ==
    LET renamed == /\ im.imageMap # {}
                   /\ h1.ok /\ h1.hash # h0.hash
                   /\ finalCssPath # hashedCssPath
    IN  CssCleanup(cssDir, cleanFilename, im, up.tbl,
                   IF renamed THEN Rename(up.fs, hashedCssPath, finalCssPath)
                   ELSE up.fs,
                   IF renamed
                   THEN [OriginalPath |-> source, HashedPath |-> finalCssPath,
                         Hash |-> h1.hash]
                   ELSE [OriginalPath |-> source, HashedPath |-> hashedCssPath,
                         Hash |-> h0.hash])

\* the url()s of the copy have been rewritten: it is hashed again
CssUpdated(cssDir, cleanFilename, im, source, h0, hashedCssPath, up) ==
    LET h1 == calculateFileHash(up.tbl, up.fs, hashedCssPath)
    IN  CssRehashed(cssDir, cleanFilename, im, source, h0, hashedCssPath, up, h1,
                    Join(cssDir, addHashToFilename(cleanFilename, h1.hash)))

\* the copy has been tried: its url()s are rewritten when there are images
CssCopied(t, order, cssDir, cleanFilename, im, source, h0, hashedCssPath, cp) ==
    IF ~cp.ok THEN CssFailed(t, im, cp.fs)
    ELSE CssUpdated(cssDir, cleanFilename, im, source, h0, hashedCssPath,
                    IF im.imageMap # {}
                    THEN updateCSSImageReferences(t, cp.fs, hashedCssPath,
                                                  im.imageMap, order)
                    ELSE [fs |-> cp.fs, tbl |-> t])

\* the source has been hashed: it is copied to the name with its hash
CssHashed(t, order, cssDir, cleanFilename, im, source, h0) ==
    LET hashedCssPath == Join(cssDir, addHashToFilename(cleanFilename, h0.hash))
    IN  IF ~h0.ok THEN CssFailed(t, im, im.fs)
        ELSE CssCopied(t, order, cssDir, cleanFilename, im, source, h0,
                       hashedCssPath, copyFile(im.fs, source, hashedCssPath))

\* the images have been published
CssWithImages(t, order, cssDir, cleanFilename, im, source) ==
    CssHashed(t, order, cssDir, cleanFilename, im, source,
              calculateFileHash(t, im.fs, source))

\* the source is read and its images are published
CssFrom(t, fsys, processed, vmap, order, cssDir, cleanFilename, source) ==
    IF ~IsFile(fsys, source)
    THEN CssFailed(t, [processed |-> processed, versionMap |-> vmap,
                       imageMap |-> {}, log |-> <<>>], fsys)
    ELSE CssWithImages(t, order, cssDir, cleanFilename,
                       PublishImages(t, collectImagesFromCSS(fsys, source),
                                     [fs |-> fsys, processed |-> processed,
                                      versionMap |-> vmap, imageMap |-> {},
                                      log |-> <<>>]),
                       source)

\* the call is added to the history
CssLogged(fsys, cssPath, r) ==
    [ok |-> r.ok, fs |-> r.fs, tbl |-> r.tbl, processed |-> r.processed,
     versionMap |-> r.versionMap, info |-> r.info,
     log |-> Append(r.log, CallRecord("css", r.tbl, fsys, cssPath, r, r.imageMap))]

\* processComponentCSS: [ok, fs, tbl, processed, versionMap, info, log]
processComponentCSS(t, fsys, processed, vmap, cssPath, order) ==
    CssLogged(fsys, cssPath,
              CssFrom(t, fsys, processed, vmap, order, Dir(cssPath),
                      removeHashFromFilename(Base(cssPath)),
                      CssSource(fsys, cssPath)))

-----------------------------------------------------------------------------
(* ReferenceScanner and ReferenceRewriter.                                 *)

Components == <<"c","o","m","p","o","n","e","n","t","s">>

DotCss == <<".","c","s","s">>

DotJs == <<".","j","s">>

DotHtml == <<".","h","t","m","l">>

HexRank(c) == CHOOSE i \in 1..16 : HexDigit[i] = c

\* the pattern findFile builds, ^name\.[a-f0-9]{8}\<QuoteMeta(ext)>$ : the
\* backslash of the format string and the one QuoteMeta puts before the dot
\* of ext make an escaped backslash, followed by "any character" and the
\* letters of ext
FindFilePatternMatches(g, nameWithoutExt, ext) ==
    LET n == Len(nameWithoutExt)
        h == PatternHashLen
    IN  /\ Len(g) >= n + 1 + h + 1
        /\ Take(g, n) = nameWithoutExt
        /\ g[n + 1] = "."
        /\ IsHex(SubSeq(g, n + 2, n + 1 + h))
        /\ IF Len(ext) = 0 THEN g[n + h + 2] = "$"
           ELSE /\ Len(g) = n + 1 + h + 1 + Len(ext)
                /\ g[n + h + 2] = "\\"
                /\ Drop(g, n + h + 3) = Drop(ext, 1)

\* the entry found first: os.ReadDir returns the entries sorted by name, and
\* the matching names differ in their hashes, which start after n + 1 characters
FirstHit(hits, n) ==
    CHOOSE g \in hits : \A g2 \in hits :
        \A i \in 1..PatternHashLen :
            (\A j \in 1..(i - 1) : g[n + 1 + j] = g2[n + 1 + j])
            => HexRank(g[n + 1 + i]) <= HexRank(g2[n + 1 + i])

\* the answer of findFile, given the directory entries that match the pattern
FindAmong(fsys, basePath, dir, nameWithoutExt, hits) ==
    IF fileExists(fsys, basePath) THEN basePath
    ELSE IF ~fileExists(fsys, dir) \/ hits = {} THEN <<>>
    ELSE Join(dir, FirstHit(hits, Len(nameWithoutExt)))

\* findFile: the path itself when it exists, else the first directory entry
\* that matches the pattern, else ""
findFile(fsys, basePath) ==
    FindAmong(fsys, basePath, Dir(basePath),
              TrimSuffix(Base(basePath), Ext(Base(basePath))),
              {g \in ReadDir(fsys, Dir(basePath)) :
                  FindFilePatternMatches(g,
                      TrimSuffix(Base(basePath), Ext(Base(basePath))),
                      Ext(Base(basePath)))})

\* a tag kept by collectResourcesFromHTML: a local reference below components/
\* whose file, or a fingerprinted version of it, exists
KeepsTag(fsys, tag, kind, suffix, absolutePath) ==
    /\ tag.kind = kind
    /\ HasSuffix(tag.val, suffix) /\ Len(tag.val) > Len(suffix)
    /\ ~HasPrefix(tag.val, Http) /\ ~HasPrefix(tag.val, <<"/","/">>)
    /\ Contains(tag.val, Components)
    /\ (fileExists(fsys, absolutePath) \/ findFile(fsys, absolutePath) # <<>>)

RECURSIVE ScanFrom(_, _, _, _, _, _)
ScanFrom(fsys, htmlDir, tags, kind, suffix, i) ==
    IF i > Len(tags) THEN <<>>
    ELSE (IF KeepsTag(fsys, tags[i], kind, suffix,
                      Clean(Join(htmlDir, tags[i].val)))
          THEN <<tags[i].val>> ELSE <<>>)
         \o ScanFrom(fsys, htmlDir, tags, kind, suffix, i + 1)

\* the values of the tags of one kind that collectResourcesFromHTML keeps
ScanTags(fsys, htmlPath, kind, suffix) ==
    ScanFrom(fsys, Dir(htmlPath), fsys[htmlPath].tags, kind, suffix, 1)

\* collectResourcesFromHTML
collectResourcesFromHTML(fsys, htmlPath) ==
    [css |-> ScanTags(fsys, htmlPath, "link", DotCss),
     js |-> ScanTags(fsys, htmlPath, "script", DotJs)]

UpperCase == <<"A","B","C","D","E","F","G","H","I","J","K","L","M",
               "N","O","P","Q","R","S","T","U","V","W","X","Y","Z">>

LowerCase == <<"a","b","c","d","e","f","g","h","i","j","k","l","m",
               "n","o","p","q","r","s","t","u","v","w","x","y","z">>

\* strings.ToLower
ToLower(s) ==
    [i \in 1..Len(s) |->
        IF \E k \in 1..26 : UpperCase[k] = s[i]
        THEN LowerCase[CHOOSE k \in 1..26 : UpperCase[k] = s[i]]
        ELSE s[i]]

\* the answer processComponentResource gives for a path it has seen:
\* a name computed from the bytes of actualPath
AlreadyProcessedInfo(t, fsys, actualPath) ==
    LET h == calculateFileHash(t, fsys, actualPath)
    IN  [ok |-> h.ok,
         info |-> IF h.ok
                  THEN [OriginalPath |-> actualPath,
                        HashedPath |-> Join(Dir(actualPath),
                                            addHashToFilename(
                                                removeHashFromFilename(Base(actualPath)),
                                                h.hash)),
                        Hash |-> h.hash]
                  ELSE NoInfo]

\* processComponentResource returns without a call of a publisher
ResourceUntouched(t, fsys, processed, vmap, s) ==
    [ok |-> s.ok, fs |-> fsys, tbl |-> t, processed |-> processed,
     versionMap |-> vmap, info |-> s.info, log |-> <<>>]

\* a script has been published
ResourceScript(t, fsys, processed, vmap, actualPath, r) ==
    [ok |-> r.ok, fs |-> r.fs, tbl |-> t,
     processed |-> processed \cup {actualPath},
     versionMap |-> vmap, info |-> r.info,
     log |-> <<CallRecord("rename", t, fsys, actualPath, r, {})>>]

\* the file to process is known
ResourceActual(t, fsys, processed, vmap, order, actualPath) ==
    IF ~fileExists(fsys, actualPath)
    THEN ResourceUntouched(t, fsys, processed, vmap, [ok |-> FALSE, info |-> NoInfo])
    ELSE IF actualPath \in processed
    THEN ResourceUntouched(t, fsys, processed, vmap,
                           AlreadyProcessedInfo(t, fsys, actualPath))
    ELSE IF HasSuffix(ToLower(actualPath), DotCss)
    THEN processComponentCSS(t, fsys, processed \cup {actualPath}, vmap,
                             actualPath, order)
    ELSE ResourceScript(t, fsys, processed, vmap, actualPath,
                        renameFileWithHash(t, fsys, actualPath))

\* the answer of findFile, or the path itself when it is ""
ResourceFound(t, fsys, processed, vmap, order, absolutePath, found) ==
    ResourceActual(t, fsys, processed, vmap, order,
                   IF found = <<>> THEN absolutePath ELSE found)

\* processComponentResource: [ok, fs, tbl, processed, versionMap, info, log]
processComponentResource(t, fsys, processed, vmap, htmlDir, relativePath, order) ==
    ResourceFound(t, fsys, processed, vmap, order,
                  Clean(Join(htmlDir, relativePath)),
                  findFile(fsys, Clean(Join(htmlDir, relativePath))))

\* the CDN origin put in front of a path that is not an absolute URL
WithDomain(newPath) ==
    IF config.CDNDomain # <<>> /\ ~HasPrefix(newPath, Http)
    THEN config.CDNDomain \o Slash \o TrimPrefix(newPath, DotSlash)
    ELSE newPath

\* the value written for a matched attribute: the directory of the old value,
\* the new filename, and the CDN origin in front
NewAttributeValue(val, newFilename) ==
    LET dir == Dir(BackslashToSlash(val))
    IN  WithDomain(IF dir = Dot \/ dir = <<>> THEN newFilename
                   ELSE dir \o Slash \o newFilename)

\* the normalised path the patterns of one map key are built from
KeyCleanPath(originalRelPath) ==
    removeHashFromFilename(BackslashToSlash(TrimPrefix(originalRelPath, DotSlash)))

\* (<tag[^>]*attr\s*=\s*['"])(PATH)(['"][^>]*>) with / of PATH as [/\\]
ExactPattern(tag, kind, cleanPath) ==
    tag.kind = kind /\ BackslashToSlash(tag.val) = cleanPath

\* the same with \.[\\/] in front of PATH
DotSlashPattern(tag, kind, cleanPath) ==
    /\ tag.kind = kind
    /\ Len(tag.val) >= 2
    /\ tag.val[1] = "."
    /\ tag.val[2] \in {"/", "\\"}
    /\ BackslashToSlash(Drop(tag.val, 2)) = cleanPath

\* patterns[n] matches this tag
PatternMatches(n, tag, kind, cleanPath) ==
    IF n = 1 THEN ExactPattern(tag, kind, cleanPath)
    ELSE DotSlashPattern(tag, kind, cleanPath)

\* ReplaceAllStringFunc of patterns[n] over the document
ApplyPattern(tags, n, kind, cleanPath, newFilename) ==
    [i \in 1..Len(tags) |->
        IF PatternMatches(n, tags[i], kind, cleanPath)
        THEN [tags[i] EXCEPT !.val = NewAttributeValue(@, newFilename)]
        ELSE tags[i]]

\* the second pattern is tried only when the first changed nothing
FirstChange(tags, first, kind, cleanPath, newFilename) ==
    IF first # tags THEN first
    ELSE ApplyPattern(tags, 2, kind, cleanPath, newFilename)

\* the two patterns of one key applied in turn, stopping after the first that
\* changed the document
RewriteTags(tags, kind, originalRelPath, newFilename) ==
    FirstChange(tags,
                ApplyPattern(tags, 1, kind, KeyCleanPath(originalRelPath),
                             newFilename),
                kind, KeyCleanPath(originalRelPath), newFilename)

\* one loop of updateHTMLReferences, the map ranged over in the given order
RECURSIVE RewriteAllTags(_, _, _, _, _)
RewriteAllTags(tags, kind, map, order, i) ==
    IF i > Len(order) THEN tags
    ELSE RewriteAllTags(RewriteTags(tags, kind, order[i], Get(map, order[i])),
                        kind, map, order, i + 1)

\* updateHTMLReferences, the two maps ranged over in the given orders: [fs, tbl]
updateHTMLReferences(t, fsys, htmlPath, res, cssOrder, jsOrder) ==
    WriteIfChanged(t, fsys, htmlPath, fsys[htmlPath],
        [fsys[htmlPath] EXCEPT !.tags =
            RewriteAllTags(RewriteAllTags(@, "link", res.css, cssOrder, 1),
                           "script", res.js, jsOrder, 1)])

-----------------------------------------------------------------------------
(* Orchestrator: processHTMLFile, step by step, and the batch around it.   *)

EmptyResources == [css |-> {}, js |-> {}]

NoLists == [css |-> <<>>, js |-> <<>>]

\* the process is running
Running == [ended |-> FALSE, status |-> 0]

\* the process has ended with this exit status
Exited(status) == [ended |-> TRUE, status |-> status]

\* the document being processed: main hands processHTMLFile the -file path as it is; processMultipleHTMLFiles
\* joins each path of its list with the RootDir
HtmlPath ==
    IF htmlFile # <<>> THEN htmlFiles[docIdx]
    ELSE Join(config.RootDir, htmlFiles[docIdx])

HtmlDir == Dir(HtmlPath)

HtmlBasename == TrimSuffix(Base(HtmlPath), DotHtml)

\* every key the image maps of these stylesheets can have
AllImageKeys(fsys, cssPaths) ==
    UNION {ImageKeys(fsys, cssPaths[i]) : i \in 1..Len(cssPaths)}

\* the orders in which a Go map with these keys can be ranged over
MapOrders(keys) == Perms(keys)

\* the attribute values that differ between two versions of a document
ChangedTags(doc, old, new) ==
    {[doc |-> doc, kind |-> old.tags[i].kind, old |-> old.tags[i].val,
      new |-> new.tags[i].val] :
        i \in {j \in 1..Len(old.tags) : old.tags[j] # new.tags[j]}}

\* the two keys under which a main resource is entered in the map
PutMain(map, relPath, name) == Put(Put(map, relPath, name), DotSlash \o relPath, name)

\* the main JS has been published: the loop ends when that succeeded
MainJSPublished(acc, actualJsPath, r) ==
    [fs |-> r.fs,
     log |-> Append(acc.log, CallRecord("rename", tbl, acc.fs, actualJsPath, r, {})),
     js |-> IF r.ok
            THEN PutMain(acc.js, Rel(HtmlDir, actualJsPath), Base(r.info.HashedPath))
            ELSE acc.js,
     done |-> r.ok]

\* one conventional location of the main JS has been looked up
MainJSFound(acc, actualJsPath) ==
    IF actualJsPath = <<>> THEN acc
    ELSE MainJSPublished(acc, actualJsPath,
                         renameFileWithHash(tbl, acc.fs, actualJsPath))

\* the loop over the conventional main JS locations
RECURSIVE MainJSLoop(_, _)
MainJSLoop(jsPaths, acc) ==
    IF Len(jsPaths) = 0 \/ acc.done THEN acc
    ELSE MainJSLoop(Tail(jsPaths), MainJSFound(acc, findFile(acc.fs, jsPaths[1])))

\* the main CSS has been published: the loop ends when that succeeded
MainCSSPublished(acc, actualCssPath, r) ==
    [fs |-> r.fs, tbl |-> r.tbl, processed |-> r.processed,
     versionMap |-> r.versionMap, log |-> acc.log \o r.log,
     css |-> IF r.ok
             THEN PutMain(acc.css, Rel(HtmlDir, actualCssPath), Base(r.info.HashedPath))
             ELSE acc.css,
     done |-> r.ok]

\* one conventional location of the main CSS has been looked up
MainCSSFound(acc, order, actualCssPath) ==
    IF actualCssPath = <<>> THEN acc
    ELSE MainCSSPublished(acc, actualCssPath,
                          processComponentCSS(acc.tbl, acc.fs, acc.processed,
                                              acc.versionMap, actualCssPath, order))

\* the loop over the conventional main CSS locations
RECURSIVE MainCSSLoop(_, _, _)
MainCSSLoop(cssPaths, order, acc) ==
    IF Len(cssPaths) = 0 \/ acc.done THEN acc
    ELSE MainCSSLoop(Tail(cssPaths), order,
                     MainCSSFound(acc, order, findFile(acc.fs, cssPaths[1])))

\* one component reference has been processed
ComponentProcessed(acc, relPath, r) ==
    [fs |-> r.fs, tbl |-> r.tbl, processed |-> r.processed,
     versionMap |-> r.versionMap, log |-> acc.log \o r.log,
     map |-> IF r.ok THEN Put(acc.map, relPath, Base(r.info.HashedPath))
             ELSE acc.map]

\* the loops over the component references collected from the document
RECURSIVE ComponentLoop(_, _, _)
ComponentLoop(relPaths, order, acc) ==
    IF Len(relPaths) = 0 THEN acc
    ELSE ComponentLoop(Tail(relPaths), order,
            ComponentProcessed(acc, relPaths[1],
                processComponentResource(acc.tbl, acc.fs, acc.processed,
                                         acc.versionMap, HtmlDir, relPaths[1], order)))

\* a batch loop that gives up at the first document that is missing
BeginDocAborting ==
    /\ pc = "begin"
    /\ docIdx <= Len(htmlFiles)
    /\ resources' = EmptyResources
    /\ htmlResources' = NoLists
    /\ IF fileExists(fs, HtmlPath)
       THEN pc' = "mainjs" /\ exit' = exit
       ELSE pc' = "exited" /\ exit' = Exited(1)
    /\ UNCHANGED <<fs, tbl, config, versionMap, processedFiles, ledger, htmlFiles,
                   docIdx, calls, rewrites, fs0, run, faults, cin, cout,
                   htmlFile, scanAll,
                   mu, workers, accesses, mover>>

\* processHTMLFile, up to the check that the document exists.  Its error ends
\* the process with status 1 when main called it for the -file flag; the batch
\* loop prints it and goes on to the next document.
BeginDoc ==
    /\ pc = "begin"
    /\ docIdx <= Len(htmlFiles)
    /\ resources' = EmptyResources
    /\ htmlResources' = NoLists
    /\ IF fileExists(fs, HtmlPath)
       THEN pc' = "mainjs" /\ docIdx' = docIdx /\ exit' = exit
       ELSE IF htmlFile # <<>>
            THEN pc' = "exited" /\ docIdx' = docIdx /\ exit' = Exited(1)
            ELSE pc' = "begin" /\ docIdx' = docIdx + 1 /\ exit' = exit
    /\ UNCHANGED <<fs, tbl, config, versionMap, processedFiles, ledger, htmlFiles,
                   calls, rewrites, fs0, run, faults, cin, cout,
                   htmlFile, scanAll,
                   mu, workers, accesses, mover>>

\* step 1: the main JS
MainJS ==
    /\ pc = "mainjs"
    /\ LET jsPaths == << Join(HtmlDir, HtmlBasename \o DotJs),
                         Join(HtmlDir, <<"j","s","/">> \o HtmlBasename \o DotJs),
                         Join(HtmlDir, <<"s","c","r","i","p","t","s","/","j","s","/">>
                                       \o HtmlBasename \o DotJs) >>
       IN  \E r \in {MainJSLoop(jsPaths,
                                 [fs |-> fs, log |-> <<>>, js |-> resources.js,
                                  done |-> FALSE])} :
            /\ fs' = r.fs
            /\ resources' = [resources EXCEPT !.js = r.js]
            /\ calls' = calls \o r.log
    /\ pc' = "maincss"
    /\ UNCHANGED <<tbl, config, versionMap, processedFiles, ledger, htmlFiles, docIdx,
                   htmlResources, rewrites, fs0, run, faults, cin, cout,
                   htmlFile, scanAll, exit,
                   mu, workers, accesses, mover>>

\* step 2: the main CSS
MainCSS ==
    /\ pc = "maincss"
    /\ LET cssPaths == << Join(HtmlDir, HtmlBasename \o DotCss),
                           Join(HtmlDir, <<"c","s","s","/">> \o HtmlBasename \o DotCss) >>
           start == [fs |-> fs, tbl |-> tbl, processed |-> processedFiles,
                     versionMap |-> versionMap, log |-> <<>>, css |-> resources.css,
                     done |-> FALSE]
       IN  \E r \in {MainCSSLoop(cssPaths, order, start) :
                        order \in MapOrders(AllImageKeys(fs, cssPaths))} :
            /\ fs' = r.fs
            /\ tbl' = r.tbl
            /\ processedFiles' = r.processed
            /\ versionMap' = r.versionMap
            /\ resources' = [resources EXCEPT !.css = r.css]
            /\ calls' = calls \o r.log
    /\ pc' = "scan"
    /\ UNCHANGED <<config, ledger, htmlFiles, docIdx, htmlResources, rewrites,
                   fs0, run, faults, cin, cout,
                   htmlFile, scanAll, exit,
                   mu, workers, accesses, mover>>

\* step 3: the scan for component references
Scan ==
    /\ pc = "scan"
    /\ htmlResources' = collectResourcesFromHTML(fs, HtmlPath)
    /\ pc' = "compjs"
    /\ UNCHANGED <<fs, tbl, config, versionMap, processedFiles, ledger, htmlFiles,
                   docIdx, resources, calls, rewrites, fs0, run, faults,
                   cin, cout,
                   htmlFile, scanAll, exit,
                   mu, workers, accesses, mover>>

\* step 4: the component JS files
ComponentJS ==
    /\ pc = "compjs"
    /\ LET start == [fs |-> fs, tbl |-> tbl, processed |-> processedFiles,
                     versionMap |-> versionMap, log |-> <<>>, map |-> resources.js]
           paths == [i \in 1..Len(htmlResources.js) |->
                        Clean(Join(HtmlDir, htmlResources.js[i]))]
       IN  \E r \in {ComponentLoop(htmlResources.js, order, start) :
                        order \in MapOrders(AllImageKeys(fs, paths))} :
            /\ fs' = r.fs
            /\ tbl' = r.tbl
            /\ processedFiles' = r.processed
            /\ versionMap' = r.versionMap
            /\ resources' = [resources EXCEPT !.js = r.map]
            /\ calls' = calls \o r.log
    /\ pc' = "compcss"
    /\ UNCHANGED <<config, ledger, htmlFiles, docIdx, htmlResources, rewrites,
                   fs0, run, faults, cin, cout,
                   htmlFile, scanAll, exit,
                   mu, workers, accesses, mover>>

\* step 5: the component CSS files
ComponentCSS ==
    /\ pc = "compcss"
    /\ LET start == [fs |-> fs, tbl |-> tbl, processed |-> processedFiles,
                     versionMap |-> versionMap, log |-> <<>>, map |-> resources.css]
           paths == [i \in 1..Len(htmlResources.css) |->
                        Clean(Join(HtmlDir, htmlResources.css[i]))]
       IN  \E r \in {ComponentLoop(htmlResources.css, order, start) :
                        order \in MapOrders(AllImageKeys(fs, paths))} :
            /\ fs' = r.fs
            /\ tbl' = r.tbl
            /\ processedFiles' = r.processed
            /\ versionMap' = r.versionMap
            /\ resources' = [resources EXCEPT !.css = r.map]
            /\ calls' = calls \o r.log
    /\ pc' = "rewrite"
    /\ UNCHANGED <<config, ledger, htmlFiles, docIdx, htmlResources, rewrites,
                   fs0, run, faults, cin, cout,
                   htmlFile, scanAll, exit,
                   mu, workers, accesses, mover>>

\* step 6: the document is rewritten; the batch goes on to the next one
Rewrite ==
    /\ pc = "rewrite"
    /\ \E r \in {updateHTMLReferences(tbl, fs, HtmlPath, resources, cssOrder, jsOrder) :
                    cssOrder \in MapOrders(Keys(resources.css)),
                    jsOrder \in MapOrders(Keys(resources.js))} :
            /\ fs' = r.fs
            /\ tbl' = r.tbl
            /\ rewrites' = rewrites \cup ChangedTags(docIdx, fs[HtmlPath], r.fs[HtmlPath])
    /\ pc' = "begin"
    /\ docIdx' = docIdx + 1
    /\ UNCHANGED <<config, versionMap, processedFiles, ledger, htmlFiles, resources,
                   htmlResources, calls, fs0, run, faults, cin, cout,
                   htmlFile, scanAll, exit,
                   mu, workers, accesses, mover>>

\* saveVersionMap at the end of processMultipleHTMLFiles, or in main after the
\* document of the -file flag; main returns
Flush ==
    /\ pc = "begin"
    /\ docIdx > Len(htmlFiles)
    /\ ledger' = [written |-> TRUE, map |-> versionMap]
    /\ pc' = "done"
    /\ exit' = Exited(0)
    /\ UNCHANGED <<fs, tbl, config, versionMap, processedFiles, htmlFiles, docIdx,
                   resources, htmlResources, calls, rewrites, fs0, run, faults,
                   cin, cout, htmlFile, scanAll,
                   mu, workers, accesses, mover>>

-----------------------------------------------------------------------------
(* The trees, configurations and batch lists the runs start from.          *)

PHtml == <<"p",".","h","t","m","l">>

PJs == <<"p",".","j","s">>

PCss == <<"p",".","c","s","s">>

QHtml == <<"q",".","h","t","m","l">>

QCss == <<"q",".","c","s","s">>

HttpHtml == <<"h","t","t","p",".","h","t","m","l">>

HttpJs == <<"h","t","t","p",".","j","s">>

BgPng == <<"b","g",".","p","n","g">>

CCss == <<"c","o","m","p","o","n","e","n","t","s","/","c",".","c","s","s">>

CJs == <<"c","o","m","p","o","n","e","n","t","s","/","c",".","j","s">>

IPng == <<"c","o","m","p","o","n","e","n","t","s","/","i",".","p","n","g">>

CdnOrigin == <<"h","t","t","p",":","/","/","c">>

StaleHash == <<"f","f","f","f","f","f","f","f">>

Url(oq, path, cq) == [oq |-> oq, path |-> path, cq |-> cq]

Tag(kind, q, val) == [kind |-> kind, q1 |-> q, val |-> val, q2 |-> q]

\* the url() forms the page stylesheet is tried with
PageCssRefs ==
    { <<>>,
      <<Url("", BgPng, "")>>,
      <<Url("\"", BgPng, "\"")>>,
      <<Url("'", BgPng, "")>>,
      <<Url("", BgPng \o <<"?","v">>, "")>>,
      <<Url("", IPng, "")>> }

\* the forms of the page's own link and script tags
PageTagForms ==
    { <<Tag("link", "\"", PCss), Tag("script", "\"", PJs)>>,
      <<Tag("link", "'", PCss), Tag("script", "'", PJs)>>,
      <<Tag("link", "\"", DotSlash \o PCss), Tag("script", "\"", DotSlash \o PJs)>> }

\* the component references of the page
ComponentTagForms ==
    { <<>>,
      <<Tag("link", "\"", CCss), Tag("script", "\"", CJs)>>,
      <<Tag("link", "\"", CCss), Tag("link", "\"", DotSlash \o CCss)>> }

\* the fingerprinted siblings of p.js the tree holds before the first run
SiblingForms == {{}, {"current"}, {"stale"}, {"current", "stale"}}

BatchLists == { <<PHtml>>, <<PHtml, PHtml>>, <<PHtml, QHtml>>, <<HttpHtml>> }

NoFaults == [create |-> {}, rename |-> FALSE, remove |-> FALSE]

\* the tree without fingerprinted files
BaseTree(cssRefs, pageTags, compTags) ==
    LET files ==
        { [k |-> PHtml, v |-> Html(pageTags \o compTags)],
          [k |-> PJs, v |-> Blob("js1")],
          [k |-> PCss, v |-> Css("css1", cssRefs)],
          [k |-> BgPng, v |-> Blob("png1")],
          [k |-> QHtml, v |-> Html(<<Tag("link", "\"", QCss), Tag("link", "\"", CCss)>>)],
          [k |-> QCss, v |-> Css("css2", <<Url("", BgPng, "")>>)],
          [k |-> HttpHtml, v |-> Html(<<Tag("script", "\"", HttpJs)>>)],
          [k |-> HttpJs, v |-> Blob("js2")],
          [k |-> CCss, v |-> Css("css3", <<Url("", <<"i",".","p","n","g">>, "")>>)],
          [k |-> CJs, v |-> Blob("js3")],
          [k |-> IPng, v |-> Blob("png2")] }
    IN  [p \in Keys(files) |-> Get(files, p)]

\* the digest table of a tree: the empty content, the bytes of a stale copy,
\* then the contents of the tree
TableOf(tree) ==
    <<Empty, Blob("old")>>
    \o SetToSeq({tree[p] : p \in DOMAIN tree} \ {Empty, Blob("old")})

\* the tree with the chosen fingerprinted siblings of p.js added
WithSiblings(tree, t, siblings) ==
    LET cur == addHashToFilename(PJs, Take(md5hex(t, tree[PJs]), DefaultHashLength))
        old == addHashToFilename(PJs, StaleHash)
        t1 == IF "current" \in siblings THEN WriteFile(tree, cur, tree[PJs]) ELSE tree
    IN  IF "stale" \in siblings THEN WriteFile(t1, old, Blob("old")) ELSE t1

\* the usual tree
DefaultScenario ==
    [cssRefs |-> <<Url("", BgPng, "")>>,
     pageTags |-> <<Tag("link", "\"", PCss), Tag("script", "\"", PJs)>>,
     compTags |-> <<Tag("link", "\"", CCss), Tag("script", "\"", CJs)>>,
     siblings |-> {}]

\* the usual tree, and the trees that differ from it in one feature
Scenarios ==
    {sc \in [cssRefs : PageCssRefs, pageTags : PageTagForms,
             compTags : ComponentTagForms, siblings : SiblingForms] :
        Cardinality({f \in {"cssRefs", "pageTags", "compTags", "siblings"} :
                        sc[f] # DefaultScenario[f]}) <= 1}

NoCodec == [f |-> <<>>, body |-> ""]

CodecAt(stage) == [stage |-> stage, hash |-> <<>>, hashed |-> <<>>, stripped |-> <<>>]

\* the runs of processMultipleHTMLFiles over the configured list
Init ==
    /\ config \in {[RootDir |-> Dot, CDNDomain |-> c, HashLength |-> DefaultHashLength,
                     HTMLFiles |-> l] : c \in {<<>>, CdnOrigin}, l \in BatchLists}
    /\ faults = NoFaults
    /\ \E sc \in Scenarios :
        LET tree == BaseTree(sc.cssRefs, sc.pageTags, sc.compTags)
        IN  /\ tbl = TableOf(tree)
            /\ fs = WithSiblings(tree, TableOf(tree), sc.siblings)
    /\ fs0 = fs
    /\ htmlFiles = config.HTMLFiles
    /\ htmlFile = <<>>
    /\ scanAll = FALSE
    /\ exit = Running
    /\ versionMap = {}
    /\ processedFiles = {}
    /\ ledger = [written |-> FALSE, map |-> {}]
    /\ docIdx = 1
    /\ pc = "begin"
    /\ resources = EmptyResources
    /\ htmlResources = NoLists
    /\ calls = <<>>
    /\ rewrites = {}
    /\ run = 1
    /\ mu = 0
    /\ workers = <<>>
    /\ accesses = {}
    /\ mover = [pc |-> "off"]
    /\ cin = NoCodec
    /\ cout = CodecAt("off")

\* the bytes of a file after its author changed it
Edited(content) ==
    [content EXCEPT !.body = IF @ = "changed" THEN "changed back" ELSE "changed"]

\* the tool is started again on the tree the last run left, after the author
\* changed nothing or the page's script
NewRun ==
    /\ pc = "done"
    /\ run < MaxRuns
    /\ \E edit \in {<<>>, PJs} :
        IF edit = <<>> THEN fs' = fs /\ tbl' = tbl
        ELSE /\ fs' = WriteFile(fs, edit, Edited(fs[edit]))
             /\ tbl' = Intern(tbl, Edited(fs[edit]))
    /\ fs0' = fs'
    /\ run' = run + 1
    /\ versionMap' = {}
    /\ processedFiles' = {}
    /\ docIdx' = 1
    /\ pc' = "begin"
    /\ resources' = EmptyResources
    /\ htmlResources' = NoLists
    /\ calls' = <<>>
    /\ rewrites' = {}
    /\ exit' = Running
    /\ UNCHANGED <<config, ledger, htmlFiles, faults, cin, cout, htmlFile, scanAll,
                   mu, workers, accesses, mover>>

Next ==
    \/ BeginDoc
    \/ MainJS
    \/ MainCSS
    \/ Scan
    \/ ComponentJS
    \/ ComponentCSS
    \/ Rewrite
    \/ Flush
    \/ NewRun

Spec == Init /\ [][Next]_vars

-----------------------------------------------------------------------------
(* The batch in an environment where I/O fails: some fingerprinted files   *)
(* cannot be created, os.Rename or os.Remove fail, and the configured list *)
(* can name a document that does not exist.                                *)

MissingHtml == <<"m",".","h","t","m","l">>

\* the name renameFileWithHash copies this file of the tree to
TargetOf(t, tree, path) ==
    Join(Dir(path), addHashToFilename(Base(path),
                                      Take(md5hex(t, tree[path]), DefaultHashLength)))

FaultLists == { <<MissingHtml, PHtml>>, <<PHtml, QHtml>>, <<QHtml, PHtml>> }

\* the files whose fingerprinted copy cannot be created
FaultyAssets == { {}, {PJs}, {BgPng}, {PCss}, {CCss}, {IPng}, {CJs}, {BgPng, IPng} }

InitFaults ==
    /\ config \in {[RootDir |-> Dot, CDNDomain |-> <<>>, HashLength |-> DefaultHashLength,
                     HTMLFiles |-> l] : l \in FaultLists}
    /\ LET tree == BaseTree(DefaultScenario.cssRefs, DefaultScenario.pageTags,
                            DefaultScenario.compTags)
       IN  /\ tbl = TableOf(tree)
           /\ fs = tree
           /\ faults \in {[create |-> {TargetOf(TableOf(tree), tree, a) : a \in as},
                           rename |-> rn, remove |-> rm] :
                            as \in FaultyAssets, rn \in BOOLEAN, rm \in BOOLEAN}
    /\ fs0 = fs
    /\ htmlFiles = <<>>
    /\ htmlFile = <<>>
    /\ scanAll = FALSE
    /\ exit = Running
    /\ versionMap = {}
    /\ processedFiles = {}
    /\ ledger = [written |-> FALSE, map |-> {}]
    /\ docIdx = 1
    /\ pc = "main"
    /\ resources = EmptyResources
    /\ htmlResources = NoLists
    /\ calls = <<>>
    /\ rewrites = {}
    /\ run = 1
    /\ mu = 0
    /\ workers = <<>>
    /\ accesses = {}
    /\ mover = [pc |-> "off"]
    /\ cin = NoCodec
    /\ cout = CodecAt("off")


-----------------------------------------------------------------------------
(* main: the run mode is chosen from the flags and the configuration.      *)

\* the default of the -file flag
DefaultHtmlFile ==
    <<"D",":","\\","s","e","l","f","_","p","r","o","j","e","c","t","\\",
      "g","o","_","p","r","o","j","e","c","t","\\",
      "i","m","a","g","e","-","u","p","l","o","a","d","-","s","e","r","v","i","c","e","\\",
      "t","e","s","t","\\","i","n","d","e","x",".","h","t","m","l">>

\* the default ExcludeDirs
ExcludeDirs ==
    { <<"n","o","d","e","_","m","o","d","u","l","e","s">>, <<".","g","i","t">>,
      <<"d","i","s","t">>, <<"b","u","i","l","d">> }

\* the characters of the paths of the trees: the separator, then the
\* characters of names in byte order
ByteOrder ==
    <<"/", "-", ".", "0","1","2","3","4","5","6","7","8","9", "_",
      "a","b","c","d","e","f","g","h","i","j","k","l","m",
      "n","o","p","q","r","s","t","u","v","w","x","y","z">>

\* filepath.Walk reaches the first file before the second: the entries of a
\* directory are walked in the order of their names, so that paths compare
\* name by name, which is character by character with the separator first
RECURSIVE WalkedBefore(_, _)
WalkedBefore(a, b) ==
    IF Len(b) = 0 THEN FALSE
    ELSE IF Len(a) = 0 THEN TRUE
    ELSE IF a[1] = b[1] THEN WalkedBefore(Tail(a), Tail(b))
    ELSE (CHOOSE i \in 1..Len(ByteOrder) : ByteOrder[i] = a[1])
         < (CHOOSE i \in 1..Len(ByteOrder) : ByteOrder[i] = b[1])

\* the paths in the order filepath.Walk reaches them
RECURSIVE WalkOrder(_)
WalkOrder(paths) ==
    IF paths = {} THEN <<>>
    ELSE LET first == CHOOSE p \in paths : \A q \in paths \ {p} : WalkedBefore(p, q)
         IN  <<first>> \o WalkOrder(paths \ {first})

\* findAllHTMLFiles: the .html files under the RootDir that are in no excluded
\* directory, as paths relative to the RootDir; none when the walk fails
findAllHTMLFiles(fsys) ==
    IF ~IsDirectory(fsys, config.RootDir) THEN <<>>
    ELSE WalkOrder({Rel(config.RootDir, f) :
                        f \in {g \in DOMAIN fsys :
                                /\ config.RootDir = Dot
                                   \/ HasPrefix(g, Clean(config.RootDir) \o Slash)
                                /\ Ext(g) = DotHtml
                                /\ \A i \in 1..(Len(SplitPath(g)) - 1) :
                                        SplitPath(g)[i] \notin ExcludeDirs}})

\* main, from flag.Parse to the call of processHTMLFile or of
\* processMultipleHTMLFiles, or to its return when there is nothing to process
Main ==
    /\ pc = "main"
    /\ IF htmlFile # <<>>
       THEN htmlFiles' = <<htmlFile>> /\ pc' = "begin" /\ exit' = exit
       ELSE IF scanAll
       THEN IF Len(findAllHTMLFiles(fs)) > 0
            THEN htmlFiles' = findAllHTMLFiles(fs) /\ pc' = "begin" /\ exit' = exit
            ELSE htmlFiles' = <<>> /\ pc' = "done" /\ exit' = Exited(0)
       ELSE IF Len(config.HTMLFiles) > 0
            THEN htmlFiles' = config.HTMLFiles /\ pc' = "begin" /\ exit' = exit
            ELSE htmlFiles' = <<>> /\ pc' = "done" /\ exit' = Exited(0)
    /\ docIdx' = 1
    /\ UNCHANGED <<fs, tbl, config, versionMap, processedFiles, ledger, resources,
                   htmlResources, calls, rewrites, fs0, run, faults, cin, cout,
                   htmlFile, scanAll,
                   mu, workers, accesses, mover>>

DistHtml == <<"d","i","s","t","/","d",".","h","t","m","l">>

NoDir == <<"n","o","w","h","e","r","e">>

\* the values of the -file flag: not passed, passed empty, a document, a
\* document that does not exist
FileFlags == {DefaultHtmlFile, <<>>, PHtml, MissingHtml}

ConfiguredLists == { <<>>, <<PHtml>>, <<MissingHtml, PHtml>>, <<PHtml, QHtml>> }

InitMain ==
    /\ config \in {[RootDir |-> d, CDNDomain |-> <<>>, HashLength |-> DefaultHashLength,
                     HTMLFiles |-> l] : d \in {Dot, NoDir}, l \in ConfiguredLists}
    /\ htmlFile \in FileFlags
    /\ scanAll \in BOOLEAN
    /\ LET tree == BaseTree(DefaultScenario.cssRefs, DefaultScenario.pageTags,
                            DefaultScenario.compTags)
       IN  /\ tbl = TableOf(tree)
           /\ fs = WriteFile(tree, DistHtml, Html(<<>>))
    /\ fs0 = fs
    /\ faults = NoFaults
    /\ htmlFiles = <<>>
    /\ exit = Running
    /\ versionMap = {}
    /\ processedFiles = {}
    /\ ledger = [written |-> FALSE, map |-> {}]
    /\ docIdx = 1
    /\ pc = "main"
    /\ resources = EmptyResources
    /\ htmlResources = NoLists
    /\ calls = <<>>
    /\ rewrites = {}
    /\ run = 1
    /\ mu = 0
    /\ workers = <<>>
    /\ accesses = {}
    /\ mover = [pc |-> "off"]
    /\ cin = NoCodec
    /\ cout = CodecAt("off")

NextMain ==
    \/ Main
    \/ BeginDoc
    \/ MainJS
    \/ MainCSS
    \/ Scan
    \/ ComponentJS
    \/ ComponentCSS
    \/ Rewrite
    \/ Flush

SpecMain == InitMain /\ [][NextMain]_vars

SpecFaults == InitFaults /\ [][NextMain]_vars

-----------------------------------------------------------------------------
(* Trees an earlier run and its author have left: the page's own files or  *)
(* the component files exist as fingerprinted files only, whose names      *)
(* carry the hash of their bytes ("fresh") or another one ("stale"); the   *)
(* page stylesheet refers to one image or to two images of the same name   *)
(* in two directories; the tags of the page name its own files by their    *)
(* clean names or as they are on disk.                                     *)

ImgA == <<"i","m","g","/","a",".","p","n","g">>

IconsA == <<"i","c","o","n","s","/","a",".","p","n","g">>

\* the images of the trees and their bytes
Images ==
    [p \in {BgPng, ImgA, IconsA, IPng} |->
        IF p = BgPng THEN Blob("png1") ELSE IF p = ImgA THEN Blob("pngA")
        ELSE IF p = IconsA THEN Blob("pngB") ELSE Blob("png2")]

\* the digests of the files that refer to no other file
BlobTable ==
    <<Empty, Blob("old"), Blob("png1"), Blob("pngA"), Blob("pngB"), Blob("png2"),
      Blob("js1"), Blob("js3")>>

\* the name a file of these bytes has: clean, or with the hash of its bytes,
\* or with another hash
NameAs(form, t, path, content) ==
    IF form = "clean" THEN path
    ELSE IF form = "fresh"
    THEN Join(Dir(path), addHashToFilename(Base(path),
                                           Take(md5hex(t, content), DefaultHashLength)))
    ELSE Join(Dir(path), addHashToFilename(Base(path), StaleHash))

TreeForms ==
    [page : {"clean", "fresh", "stale"}, comp : {"clean", "fresh", "stale"},
     images : {<<BgPng>>, <<ImgA, IconsA>>}, tags : {"clean", "named"}]

\* the url() of a stylesheet for an image: a clean stylesheet refers to the
\* clean image, a fingerprinted one to the fingerprinted image
RefTo(form, dir, image) ==
    Url("", Rel(dir, NameAs(IF form = "clean" THEN "clean" ELSE "fresh",
                            BlobTable, image, Images[image])), "")

\* the stylesheets of a tree: of the page and of the component
SheetOf(form) ==
    Css("css1", [i \in 1..Len(form.images) |-> RefTo(form.page, Dot, form.images[i])])

CompSheetOf(form) == Css("css3", <<RefTo(form.comp, Dir(IPng), IPng)>>)

\* the digest table of a tree
TreeTable(form) == BlobTable \o <<SheetOf(form), CompSheetOf(form)>>

\* the files of a tree
TreeOf(form) ==
    LET t == TreeTable(form)
        js == NameAs(form.page, t, PJs, Blob("js1"))
        css == NameAs(form.page, t, PCss, SheetOf(form))
        cjs == NameAs(form.comp, t, CJs, Blob("js3"))
        ccss == NameAs(form.comp, t, CCss, CompSheetOf(form))
        tags == (IF form.tags = "clean"
                 THEN <<Tag("link", "\"", PCss), Tag("script", "\"", PJs)>>
                 ELSE <<Tag("link", "\"", css), Tag("script", "\"", js)>>)
                \o <<Tag("link", "\"", ccss), Tag("script", "\"", cjs)>>
        files == {[k |-> PHtml, v |-> Html(tags)],
                  [k |-> js, v |-> Blob("js1")],
                  [k |-> css, v |-> SheetOf(form)],
                  [k |-> cjs, v |-> Blob("js3")],
                  [k |-> ccss, v |-> CompSheetOf(form)]}
                 \cup {[k |-> p, v |-> Images[p]] : p \in DOMAIN Images}
                 \cup {[k |-> NameAs("fresh", t, p, Images[p]), v |-> Images[p]] :
                        p \in {q \in Range(form.images) : form.page # "clean"}
                              \cup {q \in {IPng} : form.comp # "clean"}}
    IN  [p \in Keys(files) |-> Get(files, p)]

InitTrees ==
    /\ config \in {[RootDir |-> Dot, CDNDomain |-> c, HashLength |-> DefaultHashLength,
                     HTMLFiles |-> <<PHtml>>] : c \in {<<>>, CdnOrigin}}
    /\ \E form \in TreeForms :
        /\ fs = TreeOf(form)
        /\ tbl = TreeTable(form) \o <<fs[PHtml]>>
    /\ fs0 = fs
    /\ faults = NoFaults
    /\ htmlFiles = <<>>
    /\ htmlFile = <<>>
    /\ scanAll = FALSE
    /\ exit = Running
    /\ versionMap = {}
    /\ processedFiles = {}
    /\ ledger = [written |-> FALSE, map |-> {}]
    /\ docIdx = 1
    /\ pc = "main"
    /\ resources = EmptyResources
    /\ htmlResources = NoLists
    /\ calls = <<>>
    /\ rewrites = {}
    /\ run = 1
    /\ mu = 0
    /\ workers = <<>>
    /\ accesses = {}
    /\ mover = [pc |-> "off"]
    /\ cin = NoCodec
    /\ cout = CodecAt("off")

SpecTrees == InitTrees /\ [][NextMain]_vars

-----------------------------------------------------------------------------
(* The filename codec on its own: a file is hashed with the configured     *)
(* HashLength, the hash is inserted in its clean name and stripped again.  *)

\* clean filenames with a recognized extension
CodecNames ==
    { <<"a",".","c","s","s">>, PJs, BgPng,
      <<"a",".","m","i","n",".","j","s">>,
      <<"a","-","b",".","j","p","e","g">>,
      <<"f","a","c","e",".","i","c","o">> }

CodecBodies == {"x", "y"}

InitCodec ==
    /\ config \in {[RootDir |-> Dot, CDNDomain |-> <<>>, HashLength |-> n,
                     HTMLFiles |-> <<>>] : n \in 1..MaxHashLength}
    /\ htmlFile = <<>>
    /\ scanAll = FALSE
    /\ exit = Running
    /\ cin \in [f : CodecNames, body : CodecBodies]
    /\ cout = CodecAt("start")
    /\ fs = [p \in {cin.f} |-> Blob(cin.body)]
    /\ tbl = <<Blob("x"), Blob("y")>>
    /\ fs0 = fs
    /\ faults = NoFaults
    /\ htmlFiles = <<>>
    /\ versionMap = {}
    /\ processedFiles = {}
    /\ ledger = [written |-> FALSE, map |-> {}]
    /\ docIdx = 1
    /\ pc = "codec"
    /\ resources = EmptyResources
    /\ htmlResources = NoLists
    /\ calls = <<>>
    /\ rewrites = {}
    /\ run = 1
    /\ mu = 0
    /\ workers = <<>>
    /\ accesses = {}
    /\ mover = [pc |-> "off"]

CodecFrame ==
    UNCHANGED <<fs, tbl, config, versionMap, processedFiles, ledger, htmlFiles, docIdx,
                pc, resources, htmlResources, calls, rewrites, fs0, run, faults, cin,
                htmlFile, scanAll, exit,
                   mu, workers, accesses, mover>>

\* the file is hashed
CodecHash ==
    /\ pc = "codec" /\ cout.stage = "start"
    /\ cout' = [cout EXCEPT !.stage = "hash",
                            !.hash = calculateFileHash(tbl, fs, cin.f).hash]
    /\ CodecFrame

\* the hash is inserted in the clean name
CodecInsert ==
    /\ pc = "codec" /\ cout.stage = "hash"
    /\ cout' = [cout EXCEPT !.stage = "hashed",
                            !.hashed = addHashToFilename(cin.f, cout.hash)]
    /\ CodecFrame

\* the hash is stripped from the fingerprinted name
CodecStrip ==
    /\ pc = "codec" /\ cout.stage = "hashed"
    /\ cout' = [cout EXCEPT !.stage = "stripped",
                            !.stripped = removeHashFromFilename(cout.hashed)]
    /\ CodecFrame

NextCodec ==
    \/ CodecHash
    \/ CodecInsert
    \/ CodecStrip

SpecCodec == InitCodec /\ [][NextCodec]_vars

-----------------------------------------------------------------------------
(* Trees with the main script of p.html at several of its conventional     *)
(* locations, and copies that fail.                                        *)

JsPJs == <<"j","s","/","p",".","j","s">>

ScriptsJsPJs == <<"s","c","r","i","p","t","s","/","j","s","/","p",".","j","s">>

\* the bytes of the main script at each location
MainJsFiles ==
    { [k |-> PJs, v |-> Blob("js1")],
      [k |-> JsPJs, v |-> Blob("js4")],
      [k |-> ScriptsJsPJs, v |-> Blob("js5")] }

\* the usual tree with the main script of p.html at the locations in present
MainJsTree(present) ==
    LET tree == BaseTree(DefaultScenario.cssRefs, DefaultScenario.pageTags,
                         DefaultScenario.compTags)
    IN  [p \in (DOMAIN tree \ {PJs}) \cup present |->
            IF p \in Keys(MainJsFiles) THEN Get(MainJsFiles, p) ELSE tree[p]]

InitMainJS ==
    /\ config \in {[RootDir |-> Dot, CDNDomain |-> <<>>, HashLength |-> DefaultHashLength,
                     HTMLFiles |-> l] : l \in {<<PHtml>>, <<PHtml, QHtml>>}}
    /\ tbl = TableOf(MainJsTree(Keys(MainJsFiles)))
    /\ \E present \in SUBSET Keys(MainJsFiles) :
        /\ fs = MainJsTree(present)
        /\ faults \in {[NoFaults EXCEPT !.create = {TargetOf(tbl, fs, a) : a \in as}] :
                            as \in SUBSET present}
    /\ fs0 = fs
    /\ htmlFiles = <<>>
    /\ htmlFile = <<>>
    /\ scanAll = FALSE
    /\ exit = Running
    /\ versionMap = {}
    /\ processedFiles = {}
    /\ ledger = [written |-> FALSE, map |-> {}]
    /\ docIdx = 1
    /\ pc = "main"
    /\ resources = EmptyResources
    /\ htmlResources = NoLists
    /\ calls = <<>>
    /\ rewrites = {}
    /\ run = 1
    /\ mu = 0
    /\ workers = <<>>
    /\ accesses = {}
    /\ mover = [pc |-> "off"]
    /\ cin = NoCodec
    /\ cout = CodecAt("off")

SpecMainJS == InitMainJS /\ [][NextMain]_vars

-----------------------------------------------------------------------------
(* One turn of the image loop of processComponentCSS, taken by several      *)
(* workers at once: each worker has one image of a stylesheet in hand.      *)

NWorkers == 2

\* an access of worker w to one of the two maps; held tells whether w holds
\* vm.mu at that moment
Access(w, map, op) ==
    [w |-> w, map |-> map, op |-> op, path |-> workers[w].image, held |-> mu = w]

WorkerFrame ==
    UNCHANGED <<tbl, config, ledger, htmlFiles, docIdx, pc, resources,
                htmlResources, rewrites, fs0, run, faults, cin, cout, htmlFile,
                scanAll, exit, mover>>

\* vm.mu.Lock()
WLock(w) ==
    /\ workers[w].pc = "start"
    /\ mu = 0
    /\ mu' = w
    /\ workers' = [workers EXCEPT ![w].pc = "check"]
    /\ UNCHANGED <<fs, versionMap, processedFiles, calls, accesses>>
    /\ WorkerFrame

\* if vm.processedFiles[image.AbsolutePath] { vm.mu.Unlock(); ...; continue }
WCheck(w) ==
    /\ workers[w].pc = "check"
    /\ accesses' = accesses \cup {Access(w, "processedFiles", "read")}
    /\ IF workers[w].image \in processedFiles
       THEN /\ mu' = 0
            /\ workers' = [workers EXCEPT ![w].pc = "seen"]
       ELSE /\ mu' = mu
            /\ workers' = [workers EXCEPT ![w].pc = "mark"]
    /\ UNCHANGED <<fs, versionMap, processedFiles, calls>>
    /\ WorkerFrame

\* vm.processedFiles[image.AbsolutePath] = true; vm.mu.Unlock()
WMark(w) ==
    /\ workers[w].pc = "mark"
    /\ accesses' = accesses \cup {Access(w, "processedFiles", "write")}
    /\ processedFiles' = processedFiles \cup {workers[w].image}
    /\ mu' = 0
    /\ workers' = [workers EXCEPT ![w].pc = "publish"]
    /\ UNCHANGED <<fs, versionMap, calls>>
    /\ WorkerFrame

\* info, err := vm.renameFileWithHash(image.AbsolutePath)
WPublish(w) ==
    /\ workers[w].pc = "publish"
    /\ LET r == renameFileWithHash(tbl, fs, workers[w].image)
       IN  /\ fs' = r.fs
           /\ calls' = Append(calls, CallRecord("rename", tbl, fs, workers[w].image, r, {}))
           /\ workers' = [workers EXCEPT ![w].pc = IF r.ok THEN "record" ELSE "failed",
                                         ![w].hash = r.info.Hash]
    /\ UNCHANGED <<versionMap, processedFiles, mu, accesses>>
    /\ WorkerFrame

\* vm.versionMap[relPath] = info.Hash
WRecord(w) ==
    /\ workers[w].pc = "record"
    /\ accesses' = accesses \cup {Access(w, "versionMap", "write")}
    /\ versionMap' = Put(versionMap, Rel(config.RootDir, workers[w].image),
                         workers[w].hash)
    /\ workers' = [workers EXCEPT ![w].pc = "done"]
    /\ UNCHANGED <<fs, processedFiles, calls, mu>>
    /\ WorkerFrame

\* the workers at the start of their turns, on images of the usual tree; an
\* earlier turn may have marked an image already
InitWorkers ==
    /\ config = [RootDir |-> Dot, CDNDomain |-> <<>>, HashLength |-> DefaultHashLength,
                 HTMLFiles |-> <<PHtml>>]
    /\ LET tree == BaseTree(DefaultScenario.cssRefs, DefaultScenario.pageTags,
                            DefaultScenario.compTags)
       IN  /\ tbl = TableOf(tree)
           /\ fs = tree
           /\ faults \in {NoFaults,
                          [NoFaults EXCEPT !.create = {TargetOf(TableOf(tree), tree, BgPng)}]}
    /\ fs0 = fs
    /\ htmlFiles = config.HTMLFiles
    /\ htmlFile = <<>>
    /\ scanAll = FALSE
    /\ exit = Running
    /\ versionMap = {}
    /\ processedFiles \in {{}, {IPng}}
    /\ ledger = [written |-> FALSE, map |-> {}]
    /\ docIdx = 1
    /\ pc = "images"
    /\ resources = EmptyResources
    /\ htmlResources = NoLists
    /\ calls = <<>>
    /\ rewrites = {}
    /\ run = 1
    /\ mu = 0
    /\ workers \in [1..NWorkers -> {[pc |-> "start", image |-> p, hash |-> <<>>] :
                                      p \in {BgPng, IPng}}]
    /\ accesses = {}
    /\ mover = [pc |-> "off"]
    /\ cin = NoCodec
    /\ cout = CodecAt("off")

NextWorkers ==
    \E w \in 1..NWorkers :
        \/ WLock(w)
        \/ WCheck(w)
        \/ WMark(w)
        \/ WPublish(w)
        \/ WRecord(w)

SpecWorkers == InitWorkers /\ [][NextWorkers]_vars

-----------------------------------------------------------------------------
(* The image mover: a program of its own that moves the images of one      *)
(* directory to their destination directories.  Its whole state is the     *)
(* record mover: src and dst are the files of the source directory and of  *)
(* the destination directories, files the listing read at the start, idx   *)
(* the position of the loop, i the attempt of moveFileWithRetry.           *)

maxRetries == 3

imageExtensions ==
    { <<".","j","p","g">>, <<".","j","p","e","g">>, <<".","p","n","g">>,
      <<".","g","i","f">>, <<".","b","m","p">>, <<".","w","e","b","p">> }

isImageFile(ext) == ext \in imageExtensions

\* getDestDirectory: the directory of the prefix the name starts with, the
\* default directory otherwise
getDestDirectory(fileName) ==
    IF HasPrefix(ToLower(fileName), ToLower(<<"i","n","v","i","t","e">>))
    THEN "xdrInvite/static/202510"
    ELSE "xdrNormal/202505"

\* filepath.Join(destDir, fileName)
DestPath(fileName) == [dir |-> getDestDirectory(fileName), name |-> fileName]

\* what one call of copyFile can meet: the step that fails, and the bytes
\* io.Copy had written when it failed
CopyOutcomes(src, fileName) ==
    IF fileName \notin DOMAIN src THEN {[err |-> "open", n |-> 0]}
    ELSE {[err |-> e, n |-> 0] : e \in {"open", "create"}}
         \cup {[err |-> "copy", n |-> n] : n \in 0..(Len(src[fileName]) - 1)}
         \cup {[err |-> e, n |-> Len(src[fileName])] : e \in {"sync", "nil"}}

\* copyFile of the mover: the destination files after the call; os.Create
\* truncates the destination, io.Copy writes the bytes it gets to
moverCopyFile(src, dst, fileName, out) ==
    IF out.err \in {"open", "create"} THEN dst
    ELSE [p \in DOMAIN dst \cup {DestPath(fileName)} |->
            IF p = DestPath(fileName) THEN Take(src[fileName], out.n) ELSE dst[p]]

\* a source directory that loses the file whatever the copy did
RemoveSourceAlways(src, fileName, err, removable) ==
    IF removable THEN [f \in DOMAIN src \ {fileName} |-> src[f]] ELSE src

\* os.Remove(sourcePath), called when the copy returned nil
RemoveSource(src, fileName, err, removable) ==
    IF err = "nil" /\ removable
    THEN [f \in DOMAIN src \ {fileName} |-> src[f]]
    ELSE src

\* the entry of the loop has been dealt with: the next entry
NextEntry(m) == [m EXCEPT !.idx = @ + 1, !.i = 0, !.pc = "loop"]

\* one turn of the loop of moveFileWithRetry, and what main does with the
\* result when the loop returns
moveFileAttempt(m, fileName, out, removable) ==
    LET copied == [m EXCEPT
            !.dst = moverCopyFile(m.src, m.dst, fileName, out),
            !.src = RemoveSource(m.src, fileName, out.err, removable),
            !.log = Append(@, [name |-> fileName, op |-> "copyFile", err |-> out.err])]
    IN  IF out.err = "nil"
        THEN NextEntry([copied EXCEPT
                !.log = Append(@, [name |-> fileName, op |-> "Remove",
                                   err |-> IF removable THEN "nil" ELSE "remove"]),
                !.returned = @ \cup {[name |-> fileName, err |-> "nil"]},
                !.movedCount = @ + 1])
        ELSE IF m.i + 1 < maxRetries
        THEN [copied EXCEPT !.i = @ + 1]
        ELSE NextEntry([copied EXCEPT
                !.returned = @ \cup {[name |-> fileName, err |-> out.err]},
                !.failedFiles = Append(@, fileName)])

\* main, lines 54-81: one entry of the listing up to the call of
\* moveFileWithRetry
MoveEntry ==
    /\ mover.pc = "loop"
    /\ mover.idx <= Len(mover.files)
    /\ LET file == mover.files[mover.idx]
       IN  IF file.IsDir
           THEN mover' = NextEntry(mover)
           ELSE IF ~isImageFile(ToLower(Ext(file.Name)))
           THEN mover' = NextEntry([mover EXCEPT !.skippedCount = @ + 1])
           ELSE \E mkdirAll \in BOOLEAN :
                    mover' = IF mkdirAll
                             THEN [mover EXCEPT !.pc = "move"]
                             ELSE NextEntry([mover EXCEPT
                                      !.failedFiles = Append(@, file.Name)])
    /\ UNCHANGED <<fs, tbl, config, versionMap, processedFiles, ledger, htmlFiles,
                   docIdx, pc, resources, htmlResources, calls, rewrites, fs0, run,
                   faults, cin, cout, htmlFile, scanAll, exit, mu, workers, accesses>>

\* main, lines 83-90, with one attempt of moveFileWithRetry
MoveAttempt ==
    /\ mover.pc = "move"
    /\ LET fileName == mover.files[mover.idx].Name
       IN  \E out \in CopyOutcomes(mover.src, fileName), removable \in BOOLEAN :
               mover' = moveFileAttempt(mover, fileName, out, removable)
    /\ UNCHANGED <<fs, tbl, config, versionMap, processedFiles, ledger, htmlFiles,
                   docIdx, pc, resources, htmlResources, calls, rewrites, fs0, run,
                   faults, cin, cout, htmlFile, scanAll, exit, mu, workers, accesses>>

\* main, line 95: the loop is over and the counts are shown
MoveReport ==
    /\ mover.pc = "loop"
    /\ mover.idx > Len(mover.files)
    /\ mover' = [mover EXCEPT !.pc = "done"]
    /\ UNCHANGED <<fs, tbl, config, versionMap, processedFiles, ledger, htmlFiles,
                   docIdx, pc, resources, htmlResources, calls, rewrites, fs0, run,
                   faults, cin, cout, htmlFile, scanAll, exit, mu, workers, accesses>>

APng == <<"a",".","p","n","g">>

InviteJpg == <<"I","n","v","i","t","e","1",".","J","P","G">>

NotesTxt == <<"n","o","t","e","s",".","t","x","t">>

\* os.ReadDir(sourceDir): the entries sorted by name, a directory among them
SourceListing ==
    << [Name |-> InviteJpg, IsDir |-> FALSE], [Name |-> APng, IsDir |-> FALSE],
       [Name |-> NotesTxt, IsDir |-> FALSE],
       [Name |-> <<"o","l","d">>, IsDir |-> TRUE] >>

SourceFiles ==
    [f \in {InviteJpg, APng, NotesTxt} |->
        IF f = InviteJpg THEN <<"j","1">> ELSE IF f = APng THEN <<"p","1">> ELSE <<"t">>]

\* the mover after os.ReadDir; the destination may hold a.png from an earlier
\* run
InitMover ==
    /\ mover \in {[pc |-> "loop", src |-> SourceFiles, src0 |-> SourceFiles,
                   dst |-> d, files |-> SourceListing, idx |-> 1, i |-> 0,
                   movedCount |-> 0, skippedCount |-> 0, failedFiles |-> <<>>,
                   log |-> <<>>, returned |-> {}] :
                    d \in {<<>>, [p \in {DestPath(APng)} |-> <<"p","0">>]}}
    /\ config = [RootDir |-> Dot, CDNDomain |-> <<>>, HashLength |-> DefaultHashLength,
                 HTMLFiles |-> <<>>]
    /\ faults = NoFaults
    /\ tbl = <<>>
    /\ fs = <<>>
    /\ fs0 = fs
    /\ htmlFiles = <<>>
    /\ htmlFile = <<>>
    /\ scanAll = FALSE
    /\ exit = Running
    /\ versionMap = {}
    /\ processedFiles = {}
    /\ ledger = [written |-> FALSE, map |-> {}]
    /\ docIdx = 1
    /\ pc = "mover"
    /\ resources = EmptyResources
    /\ htmlResources = NoLists
    /\ calls = <<>>
    /\ rewrites = {}
    /\ run = 1
    /\ mu = 0
    /\ workers = <<>>
    /\ accesses = {}
    /\ cin = NoCodec
    /\ cout = CodecAt("off")

NextMover ==
    \/ MoveEntry
    \/ MoveAttempt
    \/ MoveReport

SpecMover == InitMover /\ [][NextMover]_vars

-----------------------------------------------------------------------------
(* What the claims are stated over.                                        *)

\* the publish calls of this run that succeeded
OkCalls == {i \in 1..Len(calls) : calls[i].ok}

\* the successful publishes of stylesheets
CssCalls == {i \in OkCalls : calls[i].fn = "css"}

\* the successful calls of renameFileWithHash
RenameCalls == {i \in OkCalls : calls[i].fn = "rename"}

\* the part of an attribute value in front of the filename
DirPrefix(val) == Take(val, Len(val) - Len(Base(val)))

\* the document of the batch at index d, when this was its first pass of the run
FirstPass(d) == \A e \in 1..(d - 1) : htmlFiles[e] # htmlFiles[d]

\* the kind of tag that refers to a published stylesheet or script
TagKind(i) == IF calls[i].fn = "css" THEN "link" ELSE "script"

\* the tag refers to the clean file the call published
RefersTo(doc, tag, i) ==
    /\ tag.kind = TagKind(i)
    /\ Base(tag.val) = Base(calls[i].src)
    /\ Clean(Join(Dir(doc), tag.val)) = calls[i].src

\* the paths of the existing images a stylesheet of the run's first tree refers to
ImagesOf(cssPath) ==
    {im.AbsolutePath : im \in Range(collectImagesFromCSS(fs0, cssPath))}

\* the name the image map of a stylesheet publish gives to an image
MappedNames(i, image) ==
    {e.v : e \in {x \in calls[i].imageMap :
                    Clean(Join(Dir(calls[i].src), x.k)) = image}}

\* a clean asset: a stylesheet, script or image whose name carries no hash
IsCleanAsset(path) ==
    /\ removeHashFromFilename(Base(path)) = Base(path)
    /\ Len(Ext(path)) > 1
    /\ Drop(Ext(path), 1) \in RecognizedExts

-----------------------------------------------------------------------------
(* C1 *)

\* C1: after every successful publish, whatever fingerprinted siblings the
\* directory held before, the directory holds exactly one file
\* <base>.<hex><ext> of the asset, and its embedded hash is the hash returned.
C1_ExactlyOneFingerprintedSibling ==
    \A i \in OkCalls :
        /\ Cardinality(calls[i].siblings) = 1
        /\ \A f \in calls[i].siblings :
                EmbeddedHash(f, CleanPathOf(calls[i].arg)) = calls[i].hash

-----------------------------------------------------------------------------
(* C2 *)

\* C2: at the end of a run every asset successfully published in the run has
\* exactly one entry in the flushed version map, keyed by its root-relative
\* clean path.
C2_LedgerCompleteness ==
    (pc = "done" /\ ledger.written) =>
        \A i \in OkCalls :
            Cardinality({e \in ledger.map :
                            e.k = Rel(config.RootDir, calls[i].src)}) = 1

-----------------------------------------------------------------------------
(* C3 *)

\* the tree of the end-to-end scenario: the page refers to its stylesheet and
\* its script only, the stylesheet to bg.png, and nothing is fingerprinted yet
C3_Scenario ==
    /\ run = 1
    /\ htmlFiles = <<PHtml>>
    /\ config.CDNDomain = <<>>
    /\ fs0[PHtml].tags = <<Tag("link", "\"", PCss), Tag("script", "\"", PJs)>>
    /\ fs0[PCss].refs = <<Url("", BgPng, "")>>
    /\ FingerprintedSiblings(fs0, PJs) = {}

\* the files of the end-to-end outcome: the three fingerprinted files exist,
\* the clean files are as before, the page names the fingerprinted files
C3_Files ==
    /\ \A a \in {BgPng, PCss, PJs} :
            /\ \E f \in FingerprintedSiblings(fs, a) :
                    Len(EmbeddedHash(f, a)) = DefaultHashLength
            /\ IsFile(fs, a) /\ fs[a] = fs0[a]
    /\ Len(fs[PHtml].tags) = 2
    /\ fs[PHtml].tags[1].val \in FingerprintedSiblings(fs, PCss)
    /\ fs[PHtml].tags[2].val \in FingerprintedSiblings(fs, PJs)

\* C3: one run over page.html, page.css (url(bg.png)), page.js and bg.png,
\* followed by the flush, leaves the three fingerprinted files, the clean
\* files unchanged, the page naming the fingerprinted files, and a ledger of
\* three entries.
C3_EndToEnd ==
    (C3_Scenario /\ pc = "done") =>
        /\ C3_Files
        /\ ledger.written
        /\ Cardinality(ledger.map) = 3

-----------------------------------------------------------------------------
(* C4 *)

\* C4: for every clean filename f with a recognized extension and every hash
\* h of the configured HashLength (any positive width),
\* removeHashFromFilename(addHashToFilename(f, h)) = f.
C4_RoundTrip ==
    cout.stage = "stripped" =>
        /\ Len(cout.hash) = config.HashLength
        /\ cout.stripped = cin.f

-----------------------------------------------------------------------------
(* C5 *)

\* two successful renameFileWithHash calls of one run on the same source,
\* whose bytes were the same at both
SamePublish(i, j) ==
    /\ i < j
    /\ calls[i].ok /\ calls[j].ok
    /\ calls[i].fn = calls[j].fn
    /\ calls[i].src = calls[j].src
    /\ calls[i].srcDigest = calls[j].srcDigest

-----------------------------------------------------------------------------
(* C6 *)

\* C6: when two stylesheets processed in one run refer to the same existing
\* image, both image maps give it the same fingerprinted filename, that file
\* exists after the run, and both fingerprinted stylesheet copies refer to it.
C6_Convergence ==
    pc = "done" =>
        \A i, j \in CssCalls :
            (i # j /\ calls[i].src # calls[j].src) =>
                \A image \in ImagesOf(calls[i].src) \cap ImagesOf(calls[j].src) :
                    \E name \in MappedNames(i, image) :
                        /\ MappedNames(i, image) = {name}
                        /\ MappedNames(j, image) = {name}
                        /\ IsFile(fs, Join(Dir(image), name))
                        /\ \A k \in {i, j} :
                            /\ IsFile(fs, calls[k].hashed)
                            /\ \E n \in 1..Len(fs[calls[k].hashed].refs) :
                                  LET ref == fs[calls[k].hashed].refs[n].path
                                  IN  Clean(Join(Dir(calls[k].hashed), StripQuery(ref)))
                                        = Join(Dir(image), name)

-----------------------------------------------------------------------------
(* C7 *)

\* C7: after updateHTMLReferences every link href or script src whose value
\* was the clean filename of a published resource holds the fingerprinted
\* filename behind the same directory prefix and between the same quotes,
\* and no attribute still holds the unhashed filename of that resource.
C7_RewriteCorrectness ==
    (pc = "begin" /\ docIdx > 1 /\ config.CDNDomain = <<>> /\ FirstPass(docIdx - 1)) =>
        LET doc == Join(config.RootDir, htmlFiles[docIdx - 1])
            before == fs0[doc].tags
            after == fs[doc].tags
        IN  \A i \in OkCalls : \A n \in 1..Len(before) :
                RefersTo(doc, before[n], i) =>
                    /\ after[n].val = DirPrefix(before[n].val) \o Base(calls[i].hashed)
                    /\ after[n].q1 = before[n].q1
                    /\ after[n].q2 = before[n].q2
                    /\ \A m \in 1..Len(after) : ~RefersTo(doc, after[m], i)

-----------------------------------------------------------------------------
(* C8 *)

\* C8: with a CDN origin configured, every rewritten attribute value becomes
\* <origin>/<path>, <path> being the rewritten relative path without a
\* leading "./", and a value that begins with http is never rewritten, in
\* any run, so that no value is prefixed twice.
C8_CdnPrefixing ==
    config.CDNDomain # <<>> =>
        \A r \in rewrites :
            LET origin == config.CDNDomain \o Slash
            IN  /\ ~HasPrefix(r.old, Http)
                /\ HasPrefix(r.new, origin)
                /\ Drop(r.new, Len(origin))
                     = TrimPrefix(DirPrefix(r.old), DotSlash) \o Base(r.new)
                /\ ~HasPrefix(Drop(r.new, Len(origin)), Http)

-----------------------------------------------------------------------------
(* C9 *)

\* C9: every clean asset file of the tree the run started from is still
\* there with the same bytes, whatever the run has done so far.
C9_CleanFilesUntouched ==
    \A p \in DOMAIN fs0 :
        IsCleanAsset(p) => (IsFile(fs, p) /\ fs[p] = fs0[p])

\* a run has ended in which a stylesheet was copied and its copy rewritten,
\* a script was copied and a stale fingerprinted file was deleted
C9_Witness ==
    /\ pc = "done"
    /\ \E i \in CssCalls :
        /\ calls[i].imageMap # {}
        /\ IsFile(fs, calls[i].hashed)
        /\ IsCleanAsset(calls[i].src)
        /\ fs[calls[i].hashed].refs # fs[calls[i].src].refs
    /\ \E i \in RenameCalls :
        /\ IsCleanAsset(calls[i].src)
        /\ calls[i].copied = 1
        /\ calls[i].deleted # {}

-----------------------------------------------------------------------------
(* C10 *)

\* C10: the document of a pass is rewritten only after the publishes of that
\* pass are over, and every filename written into it is the fingerprinted
\* name a publish of the run returned.
C10_PublishBeforeRewrite ==
    \A r \in rewrites :
        /\ r.doc < docIdx
        /\ \E i \in OkCalls : Base(r.new) = Base(calls[i].hashed)

-----------------------------------------------------------------------------
(* C11 *)

\* the documents of the batch list that exist
ExistingDocs == {d \in Range(htmlFiles) : IsFile(fs0, Join(config.RootDir, d))}

\* the assets of a document in the run's first tree: its main script and
\* stylesheet, the components its tags name, and the images of its stylesheets
DocAssets(doc) ==
    LET dir == Dir(doc)
        mains == {Join(dir, TrimSuffix(Base(doc), DotHtml) \o e) : e \in {DotJs, DotCss}}
        comps == {Clean(Join(dir, tag.val)) : tag \in Range(fs0[doc].tags)}
        own == {a \in mains \cup comps : IsFile(fs0, a)}
    IN  own \cup UNION {ImagesOf(a) : a \in {x \in own : Ext(x) = DotCss}}

\* C11: in a batch a failing asset or a missing document aborts nothing: when
\* the batch is over the ledger has been written, every asset of every
\* existing document has been attempted, and every asset whose fingerprinted
\* copy can be created has been published.
C11_FailureIsolation ==
    (pc \in {"done", "exited"}) =>
        /\ ledger.written
        /\ \A d \in ExistingDocs : \A a \in DocAssets(Join(config.RootDir, d)) :
            /\ \E i \in 1..Len(calls) : calls[i].arg = a
            /\ (TargetOf(tbl, fs0, a) \notin faults.create) =>
                    \E i \in OkCalls : calls[i].arg = a

\* a batch with a missing document and a failed publish that went on to
\* publish other assets and to write the ledger
C11_Witness ==
    /\ pc = "done"
    /\ ledger.written
    /\ \E d \in Range(htmlFiles) : ~IsFile(fs0, Join(config.RootDir, d))
    /\ \E i, j \in 1..Len(calls) : i < j /\ ~calls[i].ok /\ calls[j].ok

-----------------------------------------------------------------------------
(* C12 *)

\* the run was asked for a document that does not exist, or for the documents
\* of a root directory that cannot be read
MissingInput ==
    \/ htmlFile # <<>> /\ ~IsFile(fs0, htmlFile)
    \/ htmlFile = <<>> /\ scanAll /\ ~IsDirectory(fs0, config.RootDir)
    \/ htmlFile = <<>> /\ ~scanAll
        /\ \E i \in 1..Len(config.HTMLFiles) :
                ~IsFile(fs0, Join(config.RootDir, config.HTMLFiles[i]))

\* C12: in every run mode a missing input is fatal: the process ends with a
\* non-zero exit status and does not go on to the other documents.
C12_MissingInputFatal ==
    (exit.ended /\ MissingInput) =>
        /\ exit.status # 0
        /\ calls = <<>>

-----------------------------------------------------------------------------
(* C13 *)

\* C13: the run mode follows the flags passed: with -all and no -file the
\* documents are all the HTML files under the RootDir, with neither the
\* configured list, and a single document only when -file was passed.
C13_ModeFollowsFlags ==
    (pc # "main") =>
        /\ (htmlFile = DefaultHtmlFile /\ scanAll) => htmlFiles = findAllHTMLFiles(fs0)
        /\ (htmlFile = DefaultHtmlFile /\ ~scanAll) => htmlFiles = config.HTMLFiles
        /\ (htmlFile \notin {DefaultHtmlFile, <<>>}) => htmlFiles = <<htmlFile>>

-----------------------------------------------------------------------------
(* C14 *)

\* the rewrites of the link tags that name the shared component stylesheet
SharedRewrites == {r \in rewrites : r.kind = "link" /\ Clean(r.old) = CCss}

\* C14: when several documents of one run link the same component stylesheet,
\* all of them are rewritten to the same fingerprinted filename, and the file
\* of that name exists when the run is over.
C14_SharedStylesheet ==
    (pc = "done") =>
        \A r1, r2 \in SharedRewrites :
            (r1.doc # r2.doc) =>
                /\ Base(r1.new) = Base(r2.new)
                /\ IsFile(fs, Join(Dir(CCss), Base(r1.new)))
                /\ IsFile(fs, Join(Dir(CCss), Base(r2.new)))

-----------------------------------------------------------------------------
(* C15 *)

\* the file an attribute value of a document names, the CDN origin set aside
NamedFile(doc, val) ==
    LET origin == config.CDNDomain \o Slash
        path == IF config.CDNDomain # <<>> /\ HasPrefix(val, origin)
                THEN Drop(val, Len(origin)) ELSE val
    IN  Clean(Join(Dir(doc), path))

\* C15: in a run over documents an earlier run has rewritten, after the
\* content of assets changed, no attribute is left naming a file the run
\* deleted as stale, and every attribute of a republished asset names the
\* new fingerprinted file.
C15_RerunRewrites ==
    (pc = "done" /\ run > 1) =>
        \A d \in ExistingDocs :
            \A tag \in Range(fs[Join(config.RootDir, d)].tags) :
                \A i \in OkCalls :
                    LET named == NamedFile(Join(config.RootDir, d), tag.val)
                    IN  /\ named \notin calls[i].deleted
                        /\ (calls[i].copied = 1 /\ CleanPathOf(named) = CleanPathOf(calls[i].src)
                            /\ tag.kind = TagKind(i))
                                => named = calls[i].hashed

-----------------------------------------------------------------------------
(* C16 *)

\* the successful publishes whose source was a fingerprinted file, no clean
\* file being there
OrphanCalls ==
    {i \in OkCalls : calls[i].src = calls[i].arg /\ ~IsCleanAsset(calls[i].src)}

\* C16: publishing an asset that exists as a fingerprinted file only loses
\* nothing: afterwards a fingerprinted file of the asset holds the bytes the
\* source had; the file is not copied onto itself and truncated.
C16_OrphanBytesKept ==
    \A i \in OrphanCalls : calls[i].kept

-----------------------------------------------------------------------------
(* C17 *)

\* the page's own script and stylesheet that the run's first tree holds as
\* fingerprinted files only
OrphanMains ==
    {a \in {PJs, PCss} : ~IsFile(fs0, a) /\ FingerprintedSiblings(fs0, a) # {}}

\* C17: when the clean main script or stylesheet of a page is missing and a
\* fingerprinted <page>.<8 hex>.js or .css exists, findFile returns that file
\* and the run publishes it.
C17_MainResolvesFingerprinted ==
    (pc = "done") =>
        \A a \in OrphanMains :
            /\ findFile(fs0, a) \in {Join(Dir(a), f) : f \in FingerprintedSiblings(fs0, a)}
            /\ \E i \in OkCalls : calls[i].arg = findFile(fs0, a)

-----------------------------------------------------------------------------
(* C18 *)

\* the file a url() of a stylesheet resolves to
UrlTarget(cssPath, ref) == Clean(Join(Dir(cssPath), StripQuery(ref.path)))

\* C18: in the fingerprinted copy of a stylesheet every url() that resolved to
\* a published image names the fingerprinted file of that very image: the
\* file it resolves to exists and holds the bytes of the image the url() of
\* the clean stylesheet resolved to, also for two images of the same name in
\* two directories, in whatever order the image map is ranged over.
C18_UrlNamesItsOwnImage ==
    \A i \in CssCalls :
        (IsCleanAsset(calls[i].src) /\ IsFile(fs, calls[i].hashed)) =>
            /\ Len(fs[calls[i].hashed].refs) = Len(fs0[calls[i].src].refs)
            /\ \A j \in 1..Len(fs0[calls[i].src].refs) :
                LET old == fs0[calls[i].src].refs[j]
                    new == fs[calls[i].hashed].refs[j]
                IN  (StripQuery(old.path) \in Keys(calls[i].imageMap)) =>
                        /\ Base(new.path) = Get(calls[i].imageMap, StripQuery(old.path))
                        /\ IsFile(fs, UrlTarget(calls[i].src, new))
                        /\ fs[UrlTarget(calls[i].src, new)]
                            = fs0[UrlTarget(calls[i].src, old)]

-----------------------------------------------------------------------------
(* C19 *)

\* C19: when the stylesheet pipeline returns successfully, the file at the
\* returned HashedPath exists, the digest of its bytes cut to the HashLength
\* is the returned Hash and the value of the version map, and no other
\* fingerprinted sibling of the stylesheet is left, whether or not os.Rename
\* succeeds.
C19_CssResultConsistent ==
    \A i \in CssCalls :
        /\ calls[i].exists
        /\ Take(calls[i].digest, config.HashLength) = calls[i].hash
        /\ [k |-> Rel(config.RootDir, calls[i].src), v |-> calls[i].hash] \in versionMap
        /\ calls[i].siblings = {Base(calls[i].hashed)}

-----------------------------------------------------------------------------
(* C20 *)

\* C20: an image whose publish fails is skipped for the whole run: in no
\* fingerprinted stylesheet of the run, the one with the failure or a later
\* one, does a url() name a fingerprinted image file that does not exist.
C20_FailedImageNeverNamed ==
    \A i \in CssCalls :
        (IsCleanAsset(calls[i].src) /\ IsFile(fs, calls[i].hashed)) =>
            \A j \in 1..Len(fs[calls[i].hashed].refs) :
                LET new == fs[calls[i].hashed].refs[j]
                IN  (~IsRemote(new.path) /\ ~IsCleanAsset(StripQuery(new.path))) =>
                        IsFile(fs, UrlTarget(calls[i].src, new))

-----------------------------------------------------------------------------
(* C21 *)

\* C21: within one run the publish of an asset path is carried out at most
\* once, however the path is reached, and every published path is in
\* processedFiles afterwards.
C21_PublishedOnce ==
    /\ \A i, j \in 1..Len(calls) : (calls[i].arg = calls[j].arg) => i = j
    /\ \A i \in OkCalls : calls[i].arg \in processedFiles

(* C22 *)
\* the workers that marked a path in processedFiles
Markers(path) ==
    {a.w : a \in {b \in accesses : b.map = "processedFiles" /\ b.op = "write"
                                    /\ b.path = path}}

\* C22: every read and every write of processedFiles and of versionMap is made
\* by a worker that holds vm.mu, and at most one worker passes the
\* check-and-mark of a path.
C22_MutexGuardsMaps ==
    /\ \A a \in accesses : a.held
    /\ \A a \in accesses : Cardinality(Markers(a.path)) <= 1

(* C23 *)
\* the conventional locations of the main script of a document, in order
MainJsPaths(doc) ==
    LET dir == Dir(Join(config.RootDir, doc))
        name == TrimSuffix(Base(doc), DotHtml) \o DotJs
    IN  << Join(dir, name), Join(dir, <<"j","s","/">> \o name),
           Join(dir, <<"s","c","r","i","p","t","s","/","j","s","/">> \o name) >>

\* the calls that published a main script of the document
MainJsCalls(doc) ==
    {i \in OkCalls : \E n \in 1..3 : calls[i].arg = MainJsPaths(doc)[n]}

\* C23: the main script published for a page is the first of <page>.js,
\* js/<page>.js, scripts/js/<page>.js that exists, also when publishing an
\* earlier one failed; at most one is published per page; a page without any
\* of them is scanned and rewritten all the same.
C23_FirstMainJs ==
    (pc = "done") =>
        \A d \in 1..Len(htmlFiles) :
            LET doc == htmlFiles[d]
                here == {n \in 1..3 : IsFile(fs0, MainJsPaths(doc)[n])}
            IN  IsFile(fs0, Join(config.RootDir, doc)) =>
                /\ \A i \in MainJsCalls(doc) :
                        \A n \in here : calls[i].arg \in {MainJsPaths(doc)[m] : m \in 1..n}
                /\ Cardinality(MainJsCalls(doc)) <= 1
                /\ (here = {}) =>
                        /\ exit = Exited(0)
                        /\ \E r \in rewrites : r.doc = d

(* C24 *)
\* the calls of copyFile on a file of the source directory, as positions of
\* the mover's log
CopiesOf(fileName) ==
    {k \in 1..Len(mover.log) :
        mover.log[k].name = fileName /\ mover.log[k].op = "copyFile"}

\* C24: moveFileWithRetry removes the source only after a call of copyFile
\* that returned nil, calls copyFile at most maxRetries times and not again
\* after a success, and when every call failed it returns the error of the
\* last one and the source file is still there with its bytes.
C24_RemoveOnlyAfterCopy ==
    /\ \A k \in 1..Len(mover.log) :
            (mover.log[k].op = "Remove") =>
                /\ k > 1
                /\ mover.log[k - 1] = [name |-> mover.log[k].name, op |-> "copyFile",
                                       err |-> "nil"]
    /\ \A f \in DOMAIN mover.src0 :
            /\ (f \notin DOMAIN mover.src) =>
                    \E k \in CopiesOf(f) : mover.log[k].err = "nil"
            /\ Cardinality(CopiesOf(f)) <= maxRetries
            /\ \A k \in CopiesOf(f) :
                    (mover.log[k].err = "nil") => \A j \in CopiesOf(f) : j <= k
    /\ \A r \in mover.returned :
            (r.err # "nil") =>
                /\ Cardinality(CopiesOf(r.name)) = maxRetries
                /\ \E k \in CopiesOf(r.name) :
                        /\ \A j \in CopiesOf(r.name) : j <= k
                        /\ mover.log[k].err = r.err
                /\ r.name \in DOMAIN mover.src
                /\ mover.src[r.name] = mover.src0[r.name]

\* the run is over: one file was given up after maxRetries failed copies, the
\* other was copied at the second attempt and removed from the source
C24_Witness ==
    /\ mover.pc = "done"
    /\ \E r \in mover.returned : r.err = "sync"
    /\ \E f \in DOMAIN mover.src0 :
            /\ f \notin DOMAIN mover.src
            /\ Cardinality(CopiesOf(f)) = 2

(* C25 *)
\* the names of the listing that are not directories
Listed == {mover.files[k].Name : k \in {j \in 1..Len(mover.files) : ~mover.files[j].IsDir}}

\* the files moveFileWithRetry returned nil for
Moved == {r.name : r \in {x \in mover.returned : x.err = "nil"}}

\* when the run is over each listed file has been counted once
CountedOnce ==
    LET failed == {mover.failedFiles[k] : k \in 1..Len(mover.failedFiles)}
        skipped == {f \in Listed : ~isImageFile(ToLower(Ext(f)))}
    IN  /\ mover.movedCount = Cardinality(Moved)
        /\ Len(mover.failedFiles) = Cardinality(failed)
        /\ mover.skippedCount = Cardinality(skipped)
        /\ Moved \cap failed = {} /\ Moved \cap skipped = {} /\ failed \cap skipped = {}
        /\ Moved \cup failed \cup skipped = Listed

\* C25: a file moveFileWithRetry returned nil for is at its destination path
\* and is no longer in the source directory; every listed file that is not a
\* directory is counted once among moved, skipped and failed.
C25_MovedIsMoved ==
    /\ \A f \in Moved :
            /\ DestPath(f) \in DOMAIN mover.dst
            /\ f \notin DOMAIN mover.src
    /\ (mover.pc = "done") => CountedOnce

====
